---- MODULE Spec2Model ----
(***************************************************************************)
(* SCD Type 2 history maintenance of pipelines/utils/scd_type2_handler.py: *)
(* one invocation of SCDType2Handler.process_hourly_changes against the    *)
(* history table of one object type, with the table's three operations     *)
(* (SELECT current, UPDATE close, bulk insert) each succeeding or failing. *)
(*                                                                         *)
(* Python values: a mapping is a TLA+ function from field names to values, *)
(* a list is a sequence, a string is a string.  None in a slot that holds  *)
(* a mapping is NoneDict, None in a slot that holds a string is None.      *)
(* The wall-clock ingestion_timestamp of a history record is not carried.  *)
(***************************************************************************)
EXTENDS Integers, Sequences, FiniteSets, TLC

VARIABLES
    store,                \* rows of the history table, in insertion order
    pc,                   \* "idle" before the invocation, "done" after it returned
    events,               \* the batch handed to process_hourly_changes
    readFail,             \* record_ids whose SELECT raises in this invocation
    closeFail,            \* positions in records_to_close whose UPDATE raises
    insertFail,           \* whether insert_rows_json fails
    store0,               \* the table as it was when the invocation started
    current_records,      \* record_id group -> what get_current_record returned
    raised_groups,        \* record_ids whose replay raised
    records_to_close,     \* the close operations queued, in order
    new_history_records,  \* the history records queued, in order
    stats,                \* the statistics returned
    oplog,                \* the calls issued to the BigQuery client, in order
    stats1,               \* what the invocation before this one returned, if any
    validation_stats,     \* CDCValidator.validation_stats
    alert_threshold,      \* CDCValidator.alert_threshold, as num/den
    validated,            \* the event last handed to validate_event, if any
    outcome,              \* what that call returned, or that it raised
    call                  \* the last call of one of the handler's helpers: its
                          \* arguments and what it returned

vars == <<store, pc, events, readFail, closeFail, insertFail, store0,
          current_records, raised_groups, records_to_close,
          new_history_records, stats, oplog, stats1,
          validation_stats, alert_threshold, validated, outcome, call>>

\* the handler's part of the state and the validator's
handler_vars == <<store, pc, events, readFail, closeFail, insertFail, store0,
                  current_records, raised_groups, records_to_close,
                  new_history_records, stats, oplog, stats1>>
validator_vars == <<validation_stats, alert_threshold, validated, outcome>>

----------------------------------------------------------------------------
(* Bounds and the values the batches are drawn from *)

MaxBatch == 2
\* validate_event calls between two resets of the statistics
MaxCalls == 21
\* events one ValidateCDCEvent instance is handed
MaxElements == 3

None == "None"
NoneDict == [py_none |-> TRUE]

X == "001000000000001AAA"
Y == "001000000000002AAA"
Keys == {X, Y}

T1 == "2025-10-30T10:00:00Z"
T2 == "2025-10-30T11:00:00Z"
T3 == "2025-10-30T12:00:00Z"
Timestamps == {T1, T2, T3}

\* datetime.now() when the validator looked at the batch's events
ValidationTime == "2025-10-30T13:00:00Z"

\* Timestamps around the validator's limits: an hour ahead of the validation
\* time, and 366 days, 365 days and 12 hours, and exactly 365 days behind it
Future == "2025-10-30T14:00:00Z"
Old366 == "2024-10-29T13:00:00Z"
Old365AndHalf == "2024-10-30T01:00:00Z"
Old365 == "2024-10-30T13:00:00Z"
\* a string that is no timestamp, and a value that is no string (an int)
NotATimestamp == "yesterday"
IntTimestamp == "int 1761818400"

\* Other spellings the validator accepts: T1 and half a second, T1 with the
\* offset written out, and half past ten UTC written with a two-hour offset
T1Frac == "2025-10-30T10:00:00.500000Z"
T1Offset == "2025-10-30T10:00:00+00:00"
T1Plus2 == "2025-10-30T12:30:00+02:00"

\* record ids the pattern refuses: too short, and 18 characters with a hyphen
ShortId == "001"
HyphenId == "001-00000000001AAA"

\* Account snapshots of record k: as created, with only the bookkeeping stamp
\* moved, and renamed
Acme(k) ==
    [id |-> k, name |-> "Acme", created_date |-> T1,
     last_modified_date |-> T1, system_modstamp |-> T1]
AcmeTouched(k) == [Acme(k) EXCEPT !.system_modstamp = T2]
AcmeCorp(k) ==
    [Acme(k) EXCEPT !.name = "Acme Corp", !.last_modified_date = T2,
                    !.system_modstamp = T2]

\* The order json.dumps walks a snapshot's keys in (the snapshot's insertion order).
FieldOrder ==
    <<"id", "name", "created_date", "last_modified_date", "system_modstamp">>

----------------------------------------------------------------------------
(* Python strings: ordering by code point *)

CodePoints(s) ==
    CASE s = T1 -> <<50,48,50,53,45,49,48,45,51,48,84,49,48,58,48,48,58,48,48,90>>
      [] s = T2 -> <<50,48,50,53,45,49,48,45,51,48,84,49,49,58,48,48,58,48,48,90>>
      [] s = T3 -> <<50,48,50,53,45,49,48,45,51,48,84,49,50,58,48,48,58,48,48,90>>
      [] s = ValidationTime ->
                   <<50,48,50,53,45,49,48,45,51,48,84,49,51,58,48,48,58,48,48,90>>
      [] s = Future ->
                   <<50,48,50,53,45,49,48,45,51,48,84,49,52,58,48,48,58,48,48,90>>
      [] s = Old366 ->
                   <<50,48,50,52,45,49,48,45,50,57,84,49,51,58,48,48,58,48,48,90>>
      [] s = Old365AndHalf ->
                   <<50,48,50,52,45,49,48,45,51,48,84,48,49,58,48,48,58,48,48,90>>
      [] s = Old365 ->
                   <<50,48,50,52,45,49,48,45,51,48,84,49,51,58,48,48,58,48,48,90>>
      [] s = T1Frac ->
                   <<50,48,50,53,45,49,48,45,51,48,84,49,48,58,48,48,58,48,48,46,53,48,48,48,48,48,90>>
      [] s = T1Offset ->
                   <<50,48,50,53,45,49,48,45,51,48,84,49,48,58,48,48,58,48,48,43,48,48,58,48,48>>
      [] s = T1Plus2 ->
                   <<50,48,50,53,45,49,48,45,51,48,84,49,50,58,51,48,58,48,48,43,48,50,58,48,48>>
      [] s = ShortId -> <<48,48,49>>
      [] s = HyphenId -> <<48,48,49,45,48,48,48,48,48,48,48,48,48,48,49,65,65,65>>
      [] s = X -> <<48,48,49,48,48,48,48,48,48,48,48,48,48,48,49,65,65,65>>
      [] s = Y -> <<48,48,49,48,48,48,48,48,48,48,48,48,48,48,50,65,65,65>>
      [] OTHER -> << >>

\* a < b for two code point sequences, as str.__lt__ decides it
\* with the positions before i equal
RECURSIVE LexLess(_, _, _)
LexLess(a, b, i) ==
    IF i > Len(b) THEN FALSE
    ELSE IF i > Len(a) THEN TRUE
    ELSE IF a[i] # b[i] THEN a[i] < b[i]
    ELSE LexLess(a, b, i + 1)

StrLess(s, t) == s # t /\ LexLess(CodePoints(s), CodePoints(t), 1)

\* datetime.fromisoformat(s.replace('Z', '+00:00')) for the forms
\* "YYYY-MM-DDTHH:MM:SS[.ffffff](Z|+hh:mm|-hh:mm)": the whole seconds since
\* 1970-01-01T00:00:00Z (what a TIMESTAMP parameter or column holds, to the
\* second) and the microseconds past them.
Digit(c) == c - 48
Num2(cp, i) == 10 * Digit(cp[i]) + Digit(cp[i + 1])

DaysFromCivil(year, month, day) ==
    LET y == IF month <= 2 THEN year - 1 ELSE year
        era == y \div 400
        yoe == y - era * 400
        mp == IF month > 2 THEN month - 3 ELSE month + 9
        doy == (153 * mp + 2) \div 5 + day - 1
        doe == yoe * 365 + yoe \div 4 - yoe \div 100 + doy
    IN  era * 146097 + doe - 719468

HasFraction(cp) == Len(cp) > 20 /\ cp[20] = 46

Microseconds(s) ==
    LET cp == CodePoints(s)
    IN  IF HasFraction(cp)
        THEN Num2(cp, 21) * 10000 + Num2(cp, 23) * 100 + Num2(cp, 25)
        ELSE 0

\* The UTC offset, in seconds: 0 for Z
UtcOffset(cp) ==
    LET p == IF HasFraction(cp) THEN 27 ELSE 20
    IN  IF cp[p] = 90 THEN 0
        ELSE (IF cp[p] = 45 THEN -1 ELSE 1)
                * (Num2(cp, p + 1) * 3600 + Num2(cp, p + 4) * 60)

Instant(s) ==
    LET cp == CodePoints(s)
    IN  DaysFromCivil(100 * Num2(cp, 1) + Num2(cp, 3), Num2(cp, 6), Num2(cp, 9))
            * 86400
        + (Num2(cp, 12) * 60 + Num2(cp, 15)) * 60 + Num2(cp, 18)
        - UtcOffset(cp)

\* s denotes an earlier instant than t
Earlier(s, t) ==
    \/ Instant(s) < Instant(t)
    \/ Instant(s) = Instant(t) /\ Microseconds(s) < Microseconds(t)

\* (t - s).days: the whole days from s to t
WholeDays(s, t) ==
    (Instant(t) - Instant(s) - (IF Microseconds(t) < Microseconds(s) THEN 1 ELSE 0))
        \div 86400

----------------------------------------------------------------------------
(* dict.get and truthiness *)

Get(d, k) == IF k \in DOMAIN d THEN d[k] ELSE None

IsNoneDict(d) == d = NoneDict

EmptyDict == [f \in {} |-> None]

----------------------------------------------------------------------------
(* group_events_by_record *)

Truthy(s) == s # None /\ s # ""

\* The keys of `grouped`, in the order the dictionary received them
RECURSIVE GroupOrder(_, _)
GroupOrder(evs, seen) ==
    IF evs = << >> THEN << >>
    ELSE LET record_id == Get(Head(evs), "record_id")
         IN  IF Truthy(record_id) /\ record_id \notin seen
             THEN <<record_id>> \o GroupOrder(Tail(evs), seen \cup {record_id})
             ELSE GroupOrder(Tail(evs), seen)

\* grouped[record_id] before the sort: the group's events in arrival order
RECURSIVE EventsOf(_, _)
EventsOf(evs, record_id) ==
    IF evs = << >> THEN << >>
    ELSE IF Get(Head(evs), "record_id") = record_id
         THEN <<Head(evs)>> \o EventsOf(Tail(evs), record_id)
         ELSE EventsOf(Tail(evs), record_id)

\* Mutant: the message's publish time, when it has one, decides the order
SortKey_PublishTime(e) ==
    IF "_pubsub_publish_time" \in DOMAIN e THEN e["_pubsub_publish_time"]
    ELSE IF "event_timestamp" \in DOMAIN e THEN e.event_timestamp ELSE ""

SortKey(e) == IF "event_timestamp" \in DOMAIN e THEN e.event_timestamp ELSE ""

\* list.sort is stable: an event goes before the first one whose key is greater
RECURSIVE InsertByKey(_, _)
InsertByKey(sorted, e) ==
    IF sorted = << >> THEN <<e>>
    ELSE IF StrLess(SortKey(e), SortKey(Head(sorted))) THEN <<e>> \o sorted
    ELSE <<Head(sorted)>> \o InsertByKey(Tail(sorted), e)

\* Mutant: the groups are left in arrival order
SortedByTimestamp_ArrivalOrder(evs) == evs

RECURSIVE SortedByTimestamp(_)
SortedByTimestamp(evs) ==
    IF evs = << >> THEN << >>
    ELSE InsertByKey(SortedByTimestamp(SubSeq(evs, 1, Len(evs) - 1)), evs[Len(evs)])

\* The dictionary returned, as its items in order
group_events_by_record(evs) ==
    LET order == GroupOrder(evs, {})
    IN  [i \in 1..Len(order) |->
            [record_id |-> order[i],
             record_events |-> SortedByTimestamp(EventsOf(evs, order[i]))]]

----------------------------------------------------------------------------
(* detect_changes *)

metadata_fields ==
    {"ingestion_timestamp", "source", "_cdc_event_id", "_cdc_event_type",
     "_cdc_event_timestamp", "_pubsub_message_id", "_processing_timestamp",
     "system_modstamp"}

Range(seq) == {seq[i] : i \in 1..Len(seq)}

\* The order a Python set is walked in is not specified; one order is fixed here.
RECURSIVE SeqOfSet(_)
SeqOfSet(S) ==
    IF S = {} THEN << >>
    ELSE LET x == CHOOSE v \in S : TRUE IN <<x>> \o SeqOfSet(S \ {x})

KeysOf(d) == IF IsNoneDict(d) THEN {} ELSE DOMAIN d

\* Mutant: the fields the caller names are all examined
fields_to_check_AllTracked(before, after, tracked_fields) ==
    IF tracked_fields # << >> THEN Range(tracked_fields)
    ELSE (KeysOf(before) \cup KeysOf(after)) \ metadata_fields

fields_to_check(before, after, tracked_fields) ==
    (IF tracked_fields # << >> THEN Range(tracked_fields)
     ELSE KeysOf(before) \cup KeysOf(after)) \ metadata_fields

\* before.keys(), before.get or after.get on None: AttributeError
DetectRaises(before, after, tracked_fields) ==
    /\ IsNoneDict(before) \/ IsNoneDict(after)
    /\ tracked_fields # << >> => fields_to_check(before, after, tracked_fields) # {}

\* detect_changes without the comparison: every field looked at is reported
detect_changes_Unfiltered(before, after, tracked_fields) ==
    LET changed == fields_to_check(before, after, tracked_fields)
    IN  [has_changes |-> changed # {},
         changed_fields |-> SeqOfSet(changed),
         field_changes |-> [f \in changed |->
                               [before |-> Get(before, f), after |-> Get(after, f)]]]

detect_changes(before, after, tracked_fields) ==
    LET changed == {f \in fields_to_check(before, after, tracked_fields) :
                        Get(before, f) # Get(after, f)}
    IN  [has_changes |-> changed # {},
         changed_fields |-> SeqOfSet(changed),
         field_changes |-> [f \in changed |->
                               [before |-> Get(before, f), after |-> Get(after, f)]]]

----------------------------------------------------------------------------
(* json.dumps, as the sequence of tokens of the text it returns *)

\* The text of one character inside a JSON string
EscapeChar(c) ==
    CASE c = "\"" -> "\\\""
      [] c = "\\" -> "\\\\"
      [] c = "\n" -> "\\n"
      [] c = "\t" -> "\\t"
      [] OTHER -> c

\* The characters of s from position i on, escaped
RECURSIVE EscapeFrom(_, _)
EscapeFrom(s, i) ==
    IF i > Len(s) THEN ""
    ELSE EscapeChar(SubSeq(s, i, i)) \o EscapeFrom(s, i + 1)

\* Mutant: the characters are written as they are
Quote_Raw(s) == "\"" \o s \o "\""

\* The escaped text of the strings the batches are made of, worked out once
EscapedText ==
    [s \in Range(FieldOrder) \cup Keys \cup Timestamps \cup {"Acme", "Acme Corp"}
        |-> EscapeFrom(s, 1)]

\* A string as json.dumps writes it
Quote(s) ==
    "\"" \o (IF s \in DOMAIN EscapedText THEN EscapedText[s] ELSE EscapeFrom(s, 1))
         \o "\""

JsonScalar(v) == IF v = None THEN "null" ELSE Quote(v)

RECURSIVE JsonList(_)
JsonList(seq) ==
    IF seq = << >> THEN << >>
    ELSE <<Quote(Head(seq))>> \o (IF Len(seq) > 1 THEN <<",">> ELSE << >>)
            \o JsonList(Tail(seq))

RECURSIVE JsonItems(_, _)
JsonItems(d, order) ==
    IF order = << >> THEN << >>
    ELSE <<Quote(Head(order)), ":", JsonScalar(d[Head(order)])>>
            \o (IF Len(order) > 1 THEN <<",">> ELSE << >>)
            \o JsonItems(d, Tail(order))

json_dumps_list(seq) == <<"[">> \o JsonList(seq) \o <<"]">>

json_dumps_dict(d) ==
    IF IsNoneDict(d) THEN <<"null">>
    ELSE <<"{">> \o JsonItems(d, SelectSeq(FieldOrder, LAMBDA f : f \in DOMAIN d))
            \o <<"}">>

----------------------------------------------------------------------------
(* json.loads of such a text *)

\* The character an escape stands for
UnescapeChar(c) ==
    CASE c = "n" -> "\n"
      [] c = "t" -> "\t"
      [] OTHER -> c

\* The string the characters of body from position i on stand for
RECURSIVE UnescapeFrom(_, _)
UnescapeFrom(body, i) ==
    IF i > Len(body) THEN ""
    ELSE IF SubSeq(body, i, i) = "\\" /\ i < Len(body)
         THEN UnescapeChar(SubSeq(body, i + 1, i + 1)) \o UnescapeFrom(body, i + 2)
         ELSE SubSeq(body, i, i) \o UnescapeFrom(body, i + 1)

Unquote(token) == UnescapeFrom(SubSeq(token, 2, Len(token) - 1), 1)

JsonValue(token) == IF token = "null" THEN None ELSE Unquote(token)

\* [ item , item ... ]
json_loads_list(tokens) ==
    [i \in 1..((Len(tokens) - 1) \div 2) |-> Unquote(tokens[2 * i])]

\* { key : value , key : value ... } or null; of two items with one key the
\* later stays
json_loads_dict(tokens) ==
    IF tokens = <<"null">> THEN NoneDict
    ELSE LET n == (Len(tokens) - 1) \div 4
             key(i) == Unquote(tokens[4 * i - 2])
         IN  [k \in {key(i) : i \in 1..n} |->
                 JsonValue(tokens[4 * (CHOOSE i \in 1..n :
                                          /\ key(i) = k
                                          /\ \A j \in (i + 1)..n : key(j) # k)])]

----------------------------------------------------------------------------
(* create_history_record *)

\* is_current: bool = True, valid_to: Optional[str] = None
DefaultIsCurrent == TRUE
DefaultValidTo == None

create_history_record(record_id, record_data, valid_from, change_type, changed_fields, is_current, valid_to) ==
    [id |-> record_id,
     valid_from |-> valid_from,
     valid_to |-> valid_to,
     is_current |-> is_current,
     change_type |-> change_type,
     changed_fields |-> json_dumps_list(changed_fields),
     record_data |-> json_dumps_dict(record_data)]

----------------------------------------------------------------------------
(* The history table: the three statements the handler issues *)

IsCurrentOf(row, record_id) == row.id = record_id /\ row.is_current

\* SELECT * ... WHERE id = @record_id AND is_current = TRUE LIMIT 1; the
\* handler swallows a failed query and returns None
get_current_record(table, record_id, fails) ==
    IF fails \/ ~\E i \in 1..Len(table) : IsCurrentOf(table[i], record_id)
    THEN NoneDict
    ELSE table[CHOOSE i \in 1..Len(table) :
                  /\ IsCurrentOf(table[i], record_id)
                  /\ \A j \in 1..(i - 1) : ~IsCurrentOf(table[j], record_id)]

\* Mutant: the statement sets valid_to and leaves is_current as it is
close_current_record_KeepsCurrent(table, record_id, valid_to, fails) ==
    IF fails THEN [table |-> table, success |-> FALSE]
    ELSE [table |-> [i \in 1..Len(table) |->
                        IF IsCurrentOf(table[i], record_id)
                        THEN [table[i] EXCEPT !.valid_to = valid_to]
                        ELSE table[i]],
          success |-> TRUE]

\* Mutant: the statement has no `id = @record_id` condition
close_current_record_AnyKey(table, record_id, valid_to, fails) ==
    IF fails THEN [table |-> table, success |-> FALSE]
    ELSE [table |-> [i \in 1..Len(table) |->
                        IF table[i].is_current
                        THEN [table[i] EXCEPT !.valid_to = valid_to,
                                              !.is_current = FALSE]
                        ELSE table[i]],
          success |-> TRUE]

\* UPDATE ... SET valid_to = @valid_to, is_current = FALSE
\*   WHERE id = @record_id AND is_current = TRUE
\* A failed statement changes nothing and makes the handler return False.
close_current_record(table, record_id, valid_to, fails) ==
    IF fails THEN [table |-> table, success |-> FALSE]
    ELSE [table |-> [i \in 1..Len(table) |->
                        IF IsCurrentOf(table[i], record_id)
                        THEN [table[i] EXCEPT !.valid_to = valid_to,
                                              !.is_current = FALSE]
                        ELSE table[i]],
          success |-> TRUE]

\* insert_rows_json of all the records in one call; no call for an empty list
insert_history_records(table, records, fails) ==
    IF records = << >> THEN [table |-> table, success |-> TRUE]
    ELSE IF fails THEN [table |-> table, success |-> FALSE]
    ELSE [table |-> table \o records, success |-> TRUE]

----------------------------------------------------------------------------
(* process_hourly_changes *)

\* event.get(k, {})
GetDict(e, k) == IF k \in DOMAIN e THEN e[k] ELSE EmptyDict

\* `if current_record:` -- a row is a non-empty mapping
HasCurrent(current_record) == ~IsNoneDict(current_record)

NoStats(evs) ==
    [total_events |-> Len(evs), records_processed |-> 0, records_inserted |-> 0,
     records_updated |-> 0, errors |-> 0]

CloseInfo(record_id, event) ==
    [record_id |-> record_id, valid_to |-> Get(event, "event_timestamp")]

\* Mutant: an INSERT closes the current record it finds
OnInsert_ClosesCurrent(acc, record_id, event, current_record) ==
    [acc EXCEPT
        !.records_to_close =
            IF HasCurrent(current_record)
            THEN Append(@, CloseInfo(record_id, event)) ELSE @,
        !.new_history_records =
            Append(@, create_history_record(
                          record_id, GetDict(event, "after"),
                          Get(event, "event_timestamp"), "INSERT", << >>, TRUE, None)),
        !.stats.records_inserted = @ + 1]

\* `if event_type == 'INSERT':`
OnInsert(acc, record_id, event, current_record) ==
    [acc EXCEPT
        !.new_history_records =
            Append(@, create_history_record(
                          record_id, GetDict(event, "after"),
                          Get(event, "event_timestamp"), "INSERT", << >>, TRUE, None)),
        !.stats.records_inserted = @ + 1]

\* Mutant: an UPDATE is recorded whether or not a field changed
OnUpdate_AlwaysChanged(acc, record_id, event, current_record) ==
    LET before_data == GetDict(event, "before")
        after_data == GetDict(event, "after")
    IN  IF DetectRaises(before_data, after_data, << >>)
        THEN [acc EXCEPT !.raised = TRUE]
        ELSE [acc EXCEPT
                !.records_to_close =
                    IF HasCurrent(current_record)
                    THEN Append(@, CloseInfo(record_id, event)) ELSE @,
                !.new_history_records =
                    Append(@, create_history_record(
                                  record_id, after_data,
                                  Get(event, "event_timestamp"), "UPDATE",
                                  detect_changes(before_data, after_data,
                                                 << >>).changed_fields,
                                  TRUE, None)),
                !.stats.records_updated = @ + 1]

\* `elif event_type == 'UPDATE':`; raised is set when detect_changes raises
OnUpdate(acc, record_id, event, current_record) ==
    LET before_data == GetDict(event, "before")
        after_data == GetDict(event, "after")
    IN  IF DetectRaises(before_data, after_data, << >>)
        THEN [acc EXCEPT !.raised = TRUE]
        ELSE LET changes == detect_changes(before_data, after_data, << >>)
             IN  IF changes.has_changes
                 THEN [acc EXCEPT
                         !.records_to_close =
                             IF HasCurrent(current_record)
                             THEN Append(@, CloseInfo(record_id, event)) ELSE @,
                         !.new_history_records =
                             Append(@, create_history_record(
                                           record_id, after_data,
                                           Get(event, "event_timestamp"), "UPDATE",
                                           changes.changed_fields, TRUE, None)),
                         !.stats.records_updated = @ + 1]
                 ELSE acc

\* Mutant: a DELETE queues its close without looking at the current record
OnDelete_Unconditional(acc, record_id, event, current_record) ==
    [acc EXCEPT !.records_to_close = Append(@, CloseInfo(record_id, event))]

\* `elif event_type == 'DELETE':`
OnDelete(acc, record_id, event, current_record) ==
    IF HasCurrent(current_record)
    THEN [acc EXCEPT !.records_to_close = Append(@, CloseInfo(record_id, event))]
    ELSE acc

\* The body of `for event in record_events` for one event
ReplayEvent(acc, record_id, event, current_record) ==
    LET event_type == Get(event, "event_type")
    IN  CASE event_type = "INSERT" -> OnInsert(acc, record_id, event, current_record)
          [] event_type = "UPDATE" -> OnUpdate(acc, record_id, event, current_record)
          [] event_type = "DELETE" -> OnDelete(acc, record_id, event, current_record)
          [] OTHER -> acc

\* `for event in record_events`, left at the first event that raises
RECURSIVE ReplayEvents(_, _, _, _)
ReplayEvents(acc, record_id, record_events, current_record) ==
    IF record_events = << >> \/ acc.raised THEN acc
    ELSE ReplayEvents(ReplayEvent(acc, record_id, Head(record_events), current_record),
                      record_id, Tail(record_events), current_record)

\* Mutant: a group that raised is counted as processed as well
ReplayGroup_CountsRaised(acc, group, table, rFail) ==
    LET record_id == group.record_id
        current_record == get_current_record(table, record_id, record_id \in rFail)
        fetched == [acc EXCEPT
                      !.raised = FALSE,
                      !.current_records = @ @@ (record_id :> current_record),
                      !.oplog = Append(@, [op |-> "select", record_id |-> record_id,
                                           success |-> record_id \notin rFail])]
        replayed == ReplayEvents(fetched, record_id, group.record_events, current_record)
    IN  IF replayed.raised
        THEN [replayed EXCEPT !.stats.errors = @ + 1,
                              !.stats.records_processed = @ + 1,
                              !.raised_groups = @ \cup {record_id}]
        ELSE [replayed EXCEPT !.stats.records_processed = @ + 1]

\* Mutant: records_processed counts the events of a group
ReplayGroup_CountsEvents(acc, group, table, rFail) ==
    LET record_id == group.record_id
        current_record == get_current_record(table, record_id, record_id \in rFail)
        fetched == [acc EXCEPT
                      !.raised = FALSE,
                      !.current_records = @ @@ (record_id :> current_record),
                      !.oplog = Append(@, [op |-> "select", record_id |-> record_id,
                                           success |-> record_id \notin rFail])]
        replayed == ReplayEvents(fetched, record_id, group.record_events, current_record)
    IN  IF replayed.raised
        THEN [replayed EXCEPT !.stats.errors = @ + 1,
                              !.raised_groups = @ \cup {record_id}]
        ELSE [replayed EXCEPT !.stats.records_processed = @ + Len(group.record_events)]

\* Mutant: a group whose key already has a current record is not counted
ReplayGroup_SkipsKnown(acc, group, table, rFail) ==
    LET record_id == group.record_id
        current_record == get_current_record(table, record_id, record_id \in rFail)
        fetched == [acc EXCEPT
                      !.raised = FALSE,
                      !.current_records = @ @@ (record_id :> current_record),
                      !.oplog = Append(@, [op |-> "select", record_id |-> record_id,
                                           success |-> record_id \notin rFail])]
        replayed == ReplayEvents(fetched, record_id, group.record_events, current_record)
    IN  IF replayed.raised
        THEN [replayed EXCEPT !.stats.errors = @ + 1,
                              !.raised_groups = @ \cup {record_id}]
        ELSE IF HasCurrent(current_record) THEN replayed
        ELSE [replayed EXCEPT !.stats.records_processed = @ + 1]

\* Mutant: a group that raised leaves nothing queued and nothing counted
ReplayGroup_RollsBack(acc, group, table, rFail) ==
    LET record_id == group.record_id
        current_record == get_current_record(table, record_id, record_id \in rFail)
        fetched == [acc EXCEPT
                      !.raised = FALSE,
                      !.current_records = @ @@ (record_id :> current_record),
                      !.oplog = Append(@, [op |-> "select", record_id |-> record_id,
                                           success |-> record_id \notin rFail])]
        replayed == ReplayEvents(fetched, record_id, group.record_events, current_record)
    IN  IF replayed.raised
        THEN [fetched EXCEPT !.stats.errors = @ + 1,
                             !.raised_groups = @ \cup {record_id}]
        ELSE [replayed EXCEPT !.stats.records_processed = @ + 1]

\* One pass of `for record_id, record_events in grouped_events.items()`
ReplayGroup(acc, group, table, rFail) ==
    LET record_id == group.record_id
        current_record == get_current_record(table, record_id, record_id \in rFail)
        fetched == [acc EXCEPT
                      !.raised = FALSE,
                      !.current_records = @ @@ (record_id :> current_record),
                      !.oplog = Append(@, [op |-> "select", record_id |-> record_id,
                                           success |-> record_id \notin rFail])]
        replayed == ReplayEvents(fetched, record_id, group.record_events, current_record)
    IN  IF replayed.raised
        THEN [replayed EXCEPT !.stats.errors = @ + 1,
                              !.raised_groups = @ \cup {record_id}]
        ELSE [replayed EXCEPT !.stats.records_processed = @ + 1]

RECURSIVE ReplayGroups(_, _, _, _)
ReplayGroups(acc, groups, table, rFail) ==
    IF groups = << >> THEN acc
    ELSE ReplayGroups(ReplayGroup(acc, Head(groups), table, rFail),
                      Tail(groups), table, rFail)

\* One pass of `for close_info in records_to_close`, for the i-th of them
ApplyClose(acc, i, fails) ==
    LET close_info == acc.records_to_close[i]
        done == close_current_record(acc.table, close_info.record_id,
                                     close_info.valid_to, fails)
    IN  [acc EXCEPT
            !.table = done.table,
            !.stats.errors = IF done.success THEN @ ELSE @ + 1,
            !.oplog = Append(@, [op |-> "update",
                                 record_id |-> close_info.record_id,
                                 valid_to |-> close_info.valid_to,
                                 success |-> done.success])]

\* `for close_info in records_to_close`, from position i on
RECURSIVE ApplyCloses(_, _, _)
ApplyCloses(acc, i, cFail) ==
    IF i > Len(acc.records_to_close) THEN acc
    ELSE ApplyCloses(ApplyClose(acc, i, i \in cFail), i + 1, cFail)

\* Mutant: a failed bulk insert counts as one error
ApplyInsert_CountsOnce(acc, iFail) ==
    IF acc.new_history_records = << >> THEN acc
    ELSE LET done == insert_history_records(acc.table, acc.new_history_records, iFail)
         IN  [acc EXCEPT
                 !.table = done.table,
                 !.stats.errors = IF done.success THEN @ ELSE @ + 1,
                 !.oplog = Append(@, [op |-> "insert",
                                      rows |-> Len(acc.new_history_records),
                                      success |-> done.success])]

\* `if new_history_records:` and the bulk insert
ApplyInsert(acc, iFail) ==
    IF acc.new_history_records = << >> THEN acc
    ELSE LET done == insert_history_records(acc.table, acc.new_history_records, iFail)
         IN  [acc EXCEPT
                 !.table = done.table,
                 !.stats.errors =
                     IF done.success THEN @ ELSE @ + Len(acc.new_history_records),
                 !.oplog = Append(@, [op |-> "insert",
                                      rows |-> Len(acc.new_history_records),
                                      success |-> done.success])]

\* The replay phase: everything up to the end of the loop over the groups
Replay(table, evs, rFail) ==
    ReplayGroups([table |-> table,
                  stats |-> NoStats(evs),
                  new_history_records |-> << >>,
                  records_to_close |-> << >>,
                  current_records |-> << >>,
                  raised_groups |-> {},
                  raised |-> FALSE,
                  oplog |-> << >>],
                 group_events_by_record(evs), table, rFail)

\* The whole call: the table it leaves, the statistics it returns and what it queued
process_hourly_changes(table, evs, rFail, cFail, iFail) ==
    ApplyInsert(ApplyCloses(Replay(table, evs, rFail), 1, cFail), iFail)

----------------------------------------------------------------------------
(* CDCValidator: the checks of validate_event, each returning the error     *)
(* messages it reports (by their fixed leading text)                        *)

VALID_EVENT_TYPES == {"INSERT", "UPDATE", "DELETE"}
VALID_OBJECT_TYPES == {"Account", "Contact", "Opportunity", "Case"}

REQUIRED_FIELDS(object_type) ==
    CASE object_type = "Account" ->
            <<"id", "name", "created_date", "last_modified_date">>
      [] object_type = "Contact" ->
            <<"id", "first_name", "last_name", "created_date", "last_modified_date">>
      [] object_type = "Opportunity" ->
            <<"id", "name", "stage_name", "created_date", "last_modified_date">>
      [] object_type = "Case" ->
            <<"id", "subject", "status", "created_date", "last_modified_date">>
      [] OTHER -> << >>

\* FIELD_TYPES: the kinds isinstance accepts for a field, None apart
StrFields(object_type) ==
    CASE object_type = "Account" ->
            {"id", "name", "type", "industry", "phone", "website",
             "created_date", "last_modified_date"}
      [] object_type = "Contact" ->
            {"id", "account_id", "first_name", "last_name", "email", "phone",
             "title", "created_date", "last_modified_date"}
      [] object_type = "Opportunity" ->
            {"id", "account_id", "name", "stage_name", "close_date",
             "created_date", "last_modified_date"}
      [] object_type = "Case" ->
            {"id", "account_id", "contact_id", "subject", "description", "status",
             "origin", "priority", "created_date", "last_modified_date"}
      [] OTHER -> {}

OtherTypedFields(object_type) ==
    CASE object_type = "Account" -> {"annual_revenue"}
      [] object_type = "Opportunity" -> {"amount", "probability", "is_won", "is_closed"}
      [] object_type = "Case" -> {"is_escalated", "is_closed"}
      [] OTHER -> {}

\* SALESFORCE_ID_PATTERN.match(str(v)): 15 to 18 characters, each a letter or digit
IsAlnum(c) == (48 <= c /\ c <= 57) \/ (65 <= c /\ c <= 90) \/ (97 <= c /\ c <= 122)
MatchesIdPattern(v) ==
    LET cp == CodePoints(v)
    IN  /\ 15 <= Len(cp) /\ Len(cp) <= 18
        /\ \A i \in 1..Len(cp) : IsAlnum(cp[i])

validate_event_type(event) ==
    LET event_type == Get(event, "event_type")
    IN  IF event_type = None THEN <<"Missing required field: event_type">>
        ELSE IF event_type \notin VALID_EVENT_TYPES THEN <<"Invalid event_type">>
        ELSE << >>

validate_object_type(event) ==
    LET object_type == Get(event, "object_type")
    IN  IF object_type = None THEN <<"Missing required field: object_type">>
        ELSE IF object_type \notin VALID_OBJECT_TYPES THEN <<"Invalid object_type">>
        ELSE << >>

validate_record_id_format(event) ==
    LET record_id == Get(event, "record_id")
    IN  IF record_id = None THEN <<"Missing required field: record_id">>
        ELSE IF ~MatchesIdPattern(record_id) THEN <<"Invalid record_id format">>
        ELSE << >>

\* event_timestamp.replace(...) of a value that is not a string raises
\* AttributeError and fromisoformat of a string that is not a timestamp raises
\* ValueError: both are caught.  now is the validation time.
validate_timestamp_format(event, now) ==
    LET event_timestamp == Get(event, "event_timestamp")
    IN  IF event_timestamp = None THEN <<"Missing required field: event_timestamp">>
        ELSE IF CodePoints(event_timestamp) = << >>
             THEN <<"Invalid event_timestamp format">>
        ELSE IF Earlier(now, event_timestamp)
             THEN <<"event_timestamp is in the future">>
        ELSE IF WholeDays(event_timestamp, now) > 365
             THEN <<"event_timestamp is too old">>
        ELSE << >>

validate_changed_fields(event) ==
    IF Get(event, "event_type") = "UPDATE"
    THEN IF "changed_fields" \notin DOMAIN event
         THEN <<"Missing 'changed_fields' for UPDATE event">>
         ELSE IF Len(event.changed_fields) = 0
              THEN <<"'changed_fields' cannot be empty for UPDATE event">>
              ELSE << >>
    ELSE << >>

\* event.get(k) of a mapping-valued key
GetOrNone(e, k) == IF k \in DOMAIN e THEN e[k] ELSE NoneDict

validate_null_required_fields(event) ==
    LET object_type == Get(event, "object_type")
        event_type == Get(event, "event_type")
        after_data == GetOrNone(event, "after")
        before_data == GetOrNone(event, "before")
        required == REQUIRED_FIELDS(object_type)
        after_errors ==
            IF event_type \in {"INSERT", "UPDATE"} /\ ~IsNoneDict(after_data)
            THEN [i \in 1..Len(SelectSeq(required,
                        LAMBDA f : Get(after_data, f) = None)) |->
                    "Required field is null or missing in 'after' data"]
            ELSE << >>
    IN  IF ~Truthy(object_type)
        THEN <<"Cannot validate required fields without object_type">>
        ELSE IF ~Truthy(event_type)
        THEN <<"Cannot validate required fields without event_type">>
        ELSE IF event_type \in {"INSERT", "UPDATE"} /\ IsNoneDict(after_data)
        THEN <<"Missing 'after' data">>
        ELSE IF event_type \in {"UPDATE", "DELETE"} /\ IsNoneDict(before_data)
        THEN Append(after_errors, "Missing 'before' data")
        ELSE after_errors

\* The model's field values are strings or None: a value is of the wrong type
\* exactly when it is a string in a field declared a number or a boolean.
WrongTypes(data, object_type) ==
    IF IsNoneDict(data) \/ data = EmptyDict THEN {}
    ELSE {f \in DOMAIN data \cap OtherTypedFields(object_type) : data[f] # None}

validate_field_types(event) ==
    LET object_type == Get(event, "object_type")
    IN  IF object_type \notin VALID_OBJECT_TYPES THEN << >>
        ELSE [i \in 1..Cardinality(WrongTypes(GetOrNone(event, "after"), object_type))
                |-> "Field has wrong type in 'after'"]
             \o [i \in 1..Cardinality(WrongTypes(GetOrNone(event, "before"), object_type))
                |-> "Field has wrong type in 'before'"]

foreign_keys(object_type) ==
    CASE object_type \in {"Contact", "Opportunity"} -> {"account_id"}
      [] object_type = "Case" -> {"account_id", "contact_id"}
      [] OTHER -> {}

validate_foreign_keys(event) ==
    LET after_data == GetOrNone(event, "after")
        bad == IF IsNoneDict(after_data) \/ after_data = EmptyDict THEN {}
               ELSE {f \in foreign_keys(Get(event, "object_type")) :
                        Get(after_data, f) # None /\ ~MatchesIdPattern(after_data[f])}
    IN  [i \in 1..Cardinality(bad) |-> "Foreign key has invalid format"]

\* A before or after that is a number: `field in 42` raises TypeError and
\* (42).get raises AttributeError, outside any try
Number == [py_int |-> 42]
IsNumber(d) == d = Number

\* `if field not in after_data` of validate_null_required_fields
NullCheckRaises(event) ==
    /\ Truthy(Get(event, "object_type"))
    /\ Get(event, "event_type") \in {"INSERT", "UPDATE"}
    /\ IsNumber(GetOrNone(event, "after"))
    /\ REQUIRED_FIELDS(Get(event, "object_type")) # << >>

\* `if field_name in after_data` / `in before_data` of validate_field_types
FieldTypesRaises(event) ==
    /\ Get(event, "object_type") \in VALID_OBJECT_TYPES
    /\ IsNumber(GetOrNone(event, "after")) \/ IsNumber(GetOrNone(event, "before"))

\* `after_data.get(fk_field)` of validate_foreign_keys
ForeignKeysRaises(event) ==
    /\ foreign_keys(Get(event, "object_type")) # {}
    /\ IsNumber(GetOrNone(event, "after"))

\* The checks of validate_event in the order it runs them: the name each is
\* counted under, the errors it reports, and whether it raises instead
Checks(event, now) ==
    << [name |-> "event_type", errors |-> validate_event_type(event), raises |-> FALSE],
       [name |-> "object_type", errors |-> validate_object_type(event), raises |-> FALSE],
       [name |-> "record_id", errors |-> validate_record_id_format(event),
        raises |-> FALSE],
       [name |-> "timestamp", errors |-> validate_timestamp_format(event, now),
        raises |-> FALSE],
       [name |-> "changed_fields", errors |-> validate_changed_fields(event),
        raises |-> FALSE],
       [name |-> "null_fields", errors |-> validate_null_required_fields(event),
        raises |-> NullCheckRaises(event)],
       [name |-> "field_types", errors |-> validate_field_types(event),
        raises |-> FieldTypesRaises(event)],
       [name |-> "foreign_keys", errors |-> validate_foreign_keys(event),
        raises |-> ForeignKeysRaises(event)] >>

\* The checks that ran to their end: all of them, or those before the first to raise
RECURSIVE Completed(_)
Completed(checks) ==
    IF checks = << >> \/ Head(checks).raises THEN << >>
    ELSE <<Head(checks)>> \o Completed(Tail(checks))

RECURSIVE AllErrors(_)
AllErrors(checks) ==
    IF checks = << >> THEN << >> ELSE Head(checks).errors \o AllErrors(Tail(checks))

\* validate_event(event), without the counters: (is_valid, errors), or raised
\* when an exception leaves it and nothing is returned
validate_event(event, now) ==
    LET checks == Checks(event, now)
        done == Completed(checks)
        errors == AllErrors(done)
    IN  IF Len(done) < Len(checks)
        THEN [raised |-> TRUE, is_valid |-> FALSE, errors |-> << >>]
        ELSE [raised |-> FALSE, is_valid |-> Len(errors) = 0, errors |-> errors]

\* self.validation_stats['error_types'][error_type] = ....get(error_type, 0) + 1
Bump(error_types, name) ==
    IF name \in DOMAIN error_types
    THEN [error_types EXCEPT ![name] = @ + 1]
    ELSE error_types @@ (name :> 1)

RECURSIVE BumpFailed(_, _)
BumpFailed(error_types, done) ==
    IF done = << >> THEN error_types
    ELSE BumpFailed(IF Head(done).errors # << >>
                    THEN Bump(error_types, Head(done).name) ELSE error_types,
                    Tail(done))

\* The counters after validate_event(event): total first, the error types as
\* the checks complete, valid or invalid last (not reached when a check raises)
validation_stats_after(counters, event, now) ==
    LET checks == Checks(event, now)
        done == Completed(checks)
        counted == [counters EXCEPT
                       !.total = @ + 1,
                       !.error_types = BumpFailed(@, done)]
    IN  IF Len(done) < Len(checks) THEN counted
        ELSE IF AllErrors(done) = << >> THEN [counted EXCEPT !.valid = @ + 1]
        ELSE [counted EXCEPT !.invalid = @ + 1]

\* Mutant: the alert is raised at the threshold already
should_alert_AtThreshold(counters, threshold) ==
    IF counters.total = 0 THEN 0 >= threshold.num
    ELSE counters.invalid * threshold.den
            >= threshold.num * counters.total

\* get_error_rate() > alert_threshold, the threshold being num/den
should_alert(counters, threshold) ==
    IF counters.total = 0 THEN 0 > threshold.num
    ELSE counters.invalid * threshold.den
            > threshold.num * counters.total

\* reset_statistics()
reset_statistics ==
    [total |-> 0, valid |-> 0, invalid |-> 0, error_types |-> EmptyDict]

----------------------------------------------------------------------------
(* The batches and the tables the invocation starts from *)

Event(event_type, k, t, changed_fields, before, after) ==
    [event_type |-> event_type, object_type |-> "Account", record_id |-> k,
     event_timestamp |-> t, changed_fields |-> changed_fields,
     before |-> before, after |-> after]

InsertEvent(k, t) == Event("INSERT", k, t, << >>, NoneDict, Acme(k))
UpdateEvent(k, t) ==
    Event("UPDATE", k, t, <<"name", "last_modified_date">>, Acme(k), AcmeCorp(k))
TouchEvent(k, t) == Event("UPDATE", k, t, <<"system_modstamp">>, Acme(k), AcmeTouched(k))
\* an UPDATE that lost its before image: not what the validator lets through
BrokenEvent(k, t) == Event("UPDATE", k, t, <<"name">>, NoneDict, AcmeCorp(k))
DeleteEvent(k, t) == Event("DELETE", k, t, << >>, Acme(k), NoneDict)

\* The events whose timestamp decides what they do, at timestamp t
EventsAt(k, t) == {InsertEvent(k, t), UpdateEvent(k, t), DeleteEvent(k, t)}

\* For X every such event at each timestamp, an UPDATE without a business
\* change and one that makes the replay raise; for the sibling key Y the
\* events at T1
Events ==
    UNION {EventsAt(X, t) : t \in Timestamps}
        \cup {TouchEvent(X, T3), BrokenEvent(X, T2)} \cup EventsAt(Y, T1)

Batches == UNION {[1..n -> Events] : n \in 0..MaxBatch}

\* History rows as earlier invocations leave them
OpenRow(k, t, change_type, changed_fields, data) ==
    create_history_record(k, data, t, change_type, changed_fields, TRUE, None)
ClosedRow(k, t, change_type, changed_fields, data, valid_to) ==
    [OpenRow(k, t, change_type, changed_fields, data)
        EXCEPT !.valid_to = valid_to, !.is_current = FALSE]

InitStores ==
    { << >>,
      <<OpenRow(X, T1, "INSERT", << >>, Acme(X))>>,
      <<OpenRow(X, T2, "INSERT", << >>, Acme(X))>>,
      <<ClosedRow(X, T1, "INSERT", << >>, Acme(X), T2),
        OpenRow(X, T2, "UPDATE", <<"name", "last_modified_date">>, AcmeCorp(X))>>,
      <<OpenRow(X, T1, "INSERT", << >>, Acme(X)),
        OpenRow(Y, T1, "INSERT", << >>, Acme(Y))>> }

----------------------------------------------------------------------------
(* The state machine *)

\* CDCValidator(): alert_threshold = 0.05 and the counters at zero
NoEvent == [validated |-> FALSE]
NoOutcome == [called |-> FALSE]

NoCall == [fn |-> "none"]

ValidatorInit ==
    /\ validation_stats = reset_statistics
    /\ alert_threshold = [num |-> 5, den |-> 100]
    /\ validated = NoEvent
    /\ outcome = NoOutcome

Init ==
    /\ store \in InitStores
    /\ pc = "idle"
    /\ events = << >>
    /\ readFail = {}
    /\ closeFail = {}
    /\ insertFail = FALSE
    /\ store0 = store
    /\ current_records = << >>
    /\ raised_groups = {}
    /\ records_to_close = << >>
    /\ new_history_records = << >>
    /\ stats = NoStats(<< >>)
    /\ oplog = << >>
    /\ stats1 = NoStats(<< >>)
    /\ ValidatorInit
    /\ call = NoCall

\* handler.process_hourly_changes(evs, 'Account'), with every way the
\* table's statements can fail
Invoke(evs) ==
    \E rFail \in SUBSET Range(GroupOrder(evs, {})) :
    \E replayed \in {Replay(store, evs, rFail)} :
    \E cFail \in SUBSET (1..Len(replayed.records_to_close)) :
    \E iFail \in (IF replayed.new_history_records = << >>
                  THEN {FALSE} ELSE BOOLEAN) :
    \E r \in {ApplyInsert(ApplyCloses(replayed, 1, cFail), iFail)} :
       /\ events' = evs
       /\ readFail' = rFail
       /\ closeFail' = cFail
       /\ insertFail' = iFail
       /\ store0' = store
       /\ store' = r.table
       /\ current_records' = r.current_records
       /\ raised_groups' = r.raised_groups
       /\ records_to_close' = r.records_to_close
       /\ new_history_records' = r.new_history_records
       /\ stats' = r.stats
       /\ oplog' = r.oplog
       /\ pc' = "done"
       /\ UNCHANGED stats1

ProcessHourlyChanges ==
    /\ pc = "idle"
    /\ \E evs \in Batches : Invoke(evs)
    /\ UNCHANGED validator_vars
    /\ UNCHANGED call

Next == ProcessHourlyChanges

Spec == Init /\ [][Next]_vars

----------------------------------------------------------------------------
(* Vocabulary of the properties *)

Done == pc = "done"

\* The validator let the event through when it looked at it
Accepted(e) == validate_event(e, ValidationTime).is_valid
AllAccepted == \A i \in 1..Len(events) : Accepted(events[i])

StoreOpsSucceed == readFail = {} /\ closeFail = {} /\ ~insertFail

CurrentRows(table, k) == {i \in 1..Len(table) : IsCurrentOf(table[i], k)}
AtMostOneCurrent(table) == \A k \in Keys : Cardinality(CurrentRows(table, k)) <= 1

GroupKeys == Range(GroupOrder(events, {}))

\* The events of key k in the order they are replayed
GroupEvents(k) == SortedByTimestamp(EventsOf(events, k))

IsChangingUpdate(e) ==
    /\ e.event_type = "UPDATE"
    /\ ~IsNoneDict(e.before) /\ ~IsNoneDict(e.after)
    /\ \E f \in (DOMAIN e.before \cup DOMAIN e.after) \ metadata_fields :
           Get(e.before, f) # Get(e.after, f)

----------------------------------------------------------------------------
(* The history invariants *)

\* C1: from a table with at most one current record per key, a batch of
\* validator-accepted events whose store operations all succeed leaves at
\* most one current record per key.
C1_AtMostOneCurrentKept ==
    (Done /\ AtMostOneCurrent(store0) /\ AllAccepted /\ StoreOpsSucceed)
        => AtMostOneCurrent(store)

\* C2: Scenario E. With a current record for X in the table, the batch of two
\* changing UPDATEs of X at T2 < T3 leaves the record opened at T2 closed at
\* T3, the record opened at T3 the only current record of X, and
\* records_updated = 2.
ScenarioE ==
    /\ Done /\ StoreOpsSucceed /\ AllAccepted
    /\ Len(events) = 2
    /\ \A i \in 1..2 : events[i].record_id = X /\ IsChangingUpdate(events[i])
    /\ {events[1].event_timestamp, events[2].event_timestamp} = {T2, T3}
    /\ Cardinality(CurrentRows(store0, X)) = 1
    /\ \A i \in CurrentRows(store0, X) : store0[i].valid_from = T1

C2_ScenarioEChained ==
    ScenarioE =>
        /\ stats.records_updated = 2
        /\ \E i \in 1..Len(store) :
              /\ store[i].id = X /\ store[i].valid_from = T2
              /\ store[i].change_type = "UPDATE"
              /\ store[i].valid_to = T3 /\ ~store[i].is_current
        /\ \A i \in CurrentRows(store, X) : store[i].valid_from = T3
        /\ Cardinality(CurrentRows(store, X)) = 1

\* C3: when the latest event of a key in the batch is a DELETE and the store
\* operations succeed, the key has no current record afterwards.
LatestIsDelete(k) ==
    LET evs == GroupEvents(k)
    IN  /\ evs # << >>
        /\ evs[Len(evs)].event_type = "DELETE"
        /\ \A i \in 1..Len(evs) :
              evs[i].event_type # "DELETE" =>
                  Instant(evs[i].event_timestamp)
                      < Instant(evs[Len(evs)].event_timestamp)

C3_NoCurrentAfterDelete ==
    (Done /\ AllAccepted /\ StoreOpsSucceed /\ AtMostOneCurrent(store0))
        => \A k \in Keys : LatestIsDelete(k) => CurrentRows(store, k) = {}

\* C4: every record the invocation closed has valid_from < valid_to.
ClosedNow(i) == i \in 1..Len(store0) /\ store0[i].is_current /\ ~store[i].is_current

C4_ClosedIntervalOrdered ==
    (Done /\ AllAccepted)
        => \A i \in 1..Len(store0) :
              ClosedNow(i) => Instant(store[i].valid_from) < Instant(store[i].valid_to)

----------------------------------------------------------------------------
(* What each kind of event queues *)

RecordsOf(k) == SelectSeq(new_history_records, LAMBDA r : r.id = k)
ClosesOf(k) == SelectSeq(records_to_close, LAMBDA c : c.record_id = k)
OfType(evs, event_type) == SelectSeq(evs, LAMBDA e : e.event_type = event_type)
OfChangeType(recs, change_type) == SelectSeq(recs, LAMBDA r : r.change_type = change_type)
ChangingUpdates(evs) == SelectSeq(evs, IsChangingUpdate)
Closers(evs) == SelectSeq(evs, LAMBDA e : e.event_type = "DELETE" \/ IsChangingUpdate(e))
ReplayedGroups == GroupKeys \ raised_groups

\* The fields of an UPDATE event that differ, bookkeeping fields apart
Differing(e) ==
    {f \in (DOMAIN e.before \cup DOMAIN e.after) \ metadata_fields :
        Get(e.before, f) # Get(e.after, f)}

\* C5: every INSERT event queues exactly one History Record (id = record_id,
\* valid_from = event_timestamp, valid_to = null, is_current, change_type
\* INSERT, changed_fields []), counts once in records_inserted and queues no
\* close; a successful bulk insert appends the queued records to the table;
\* Scenario A returns Stats(1, 1, 1, 0, 0).
InsertRecord(k, e) ==
    [id |-> k, valid_from |-> e.event_timestamp, valid_to |-> None,
     is_current |-> TRUE, change_type |-> "INSERT", changed_fields |-> <<"[", "]">>,
     record_data |-> json_dumps_dict(e.after)]

ScenarioA ==
    /\ Done /\ StoreOpsSucceed /\ store0 = << >>
    /\ Len(events) = 1 /\ events[1].event_type = "INSERT" /\ Accepted(events[1])

C5_InsertQueuesOneRecord ==
    Done =>
        /\ \A k \in ReplayedGroups :
              \E evs \in {GroupEvents(k)} :
              \E inserts \in {OfType(evs, "INSERT")} :
              \E closes \in {ClosesOf(k)} :
                  /\ OfChangeType(RecordsOf(k), "INSERT")
                        = [i \in 1..Len(inserts) |-> InsertRecord(k, inserts[i])]
                  /\ Len(closes) <= Len(evs) - Len(inserts)
                  /\ \A i \in 1..Len(closes) :
                        \E j \in 1..Len(evs) :
                           /\ evs[j].event_type # "INSERT"
                           /\ evs[j].event_timestamp = closes[i].valid_to
        /\ raised_groups = {} => stats.records_inserted = Len(OfType(events, "INSERT"))
        /\ ~insertFail =>
              SubSeq(store, Len(store0) + 1, Len(store)) = new_history_records
        /\ ScenarioA =>
              /\ stats = [total_events |-> 1, records_processed |-> 1,
                          records_inserted |-> 1, records_updated |-> 0, errors |-> 0]
              /\ store = <<InsertRecord(events[1].record_id, events[1])>>

C5_Witness ==
    /\ ScenarioA
    /\ events[1].record_id = X /\ events[1].event_timestamp = T1
    /\ Len(store) = 1 /\ stats.records_inserted = 1

\* C6: an UPDATE event queues a History Record (change_type UPDATE, valid_from
\* = event_timestamp, is_current, changed_fields = the fields detected) and
\* counts in records_updated exactly when a business field differs; without a
\* difference it queues nothing and its group still counts as processed; with
\* one, a close at event_timestamp is queued exactly when the group's current
\* record was found.
UpdateRecord(k, e) ==
    [id |-> k, valid_from |-> e.event_timestamp, valid_to |-> None,
     is_current |-> TRUE, change_type |-> "UPDATE",
     changed_fields |-> json_dumps_list(SeqOfSet(Differing(e))),
     record_data |-> json_dumps_dict(e.after)]

OnlyUnchangedUpdates ==
    /\ events # << >>
    /\ \A i \in 1..Len(events) :
          events[i].event_type = "UPDATE" /\ Accepted(events[i])
            /\ ~IsChangingUpdate(events[i])

C6_UpdateQueuesIffChanged ==
    Done =>
        /\ \A k \in ReplayedGroups :
              \E changing \in {ChangingUpdates(GroupEvents(k))} :
              \E closes \in {ClosesOf(k)} :
                  /\ OfChangeType(RecordsOf(k), "UPDATE")
                        = [i \in 1..Len(changing) |-> UpdateRecord(k, changing[i])]
                  /\ \A i \in 1..Len(changing) :
                        (\E j \in 1..Len(closes) :
                            closes[j].valid_to = changing[i].event_timestamp)
                        <=> HasCurrent(current_records[k])
                  /\ k \notin readFail =>
                        (HasCurrent(current_records[k]) <=> CurrentRows(store0, k) # {})
        /\ raised_groups = {} => stats.records_updated = Len(ChangingUpdates(events))
        /\ OnlyUnchangedUpdates =>
              /\ records_to_close = << >> /\ new_history_records = << >>
              /\ stats.records_updated = 0
              /\ stats.records_processed = Cardinality(GroupKeys)
              /\ store = store0

C6_Witness ==
    /\ Done /\ StoreOpsSucceed
    /\ events = <<UpdateEvent(X, T2), TouchEvent(X, T3)>>
    /\ CurrentRows(store0, X) # {}
    /\ records_to_close = <<[record_id |-> X, valid_to |-> T2]>>
    /\ Len(new_history_records) = 1
    /\ stats.records_updated = 1 /\ stats.records_processed = 1

\* C7: a DELETE event never queues a History Record; it queues exactly one
\* close at event_timestamp when the group's current record was found and
\* nothing otherwise, and errors stays 0 when the store operations succeed.
OnlyDeletes ==
    /\ events # << >>
    /\ \A i \in 1..Len(events) : events[i].event_type = "DELETE"

C7_DeleteOnlyCloses ==
    Done =>
        /\ \A i \in 1..Len(new_history_records) :
              new_history_records[i].change_type \in {"INSERT", "UPDATE"}
        /\ Len(new_history_records) <= Len(events) - Len(OfType(events, "DELETE"))
        /\ \A k \in ReplayedGroups :
              \E closers \in {Closers(GroupEvents(k))} :
                  ClosesOf(k) =
                      IF HasCurrent(current_records[k])
                      THEN [i \in 1..Len(closers) |->
                               [record_id |-> k, valid_to |-> closers[i].event_timestamp]]
                      ELSE << >>
        /\ OnlyDeletes =>
              /\ new_history_records = << >> /\ raised_groups = {}
              /\ \A i \in 1..Len(oplog) : oplog[i].op # "insert"
              /\ StoreOpsSucceed => stats.errors = 0
              /\ (\A k \in GroupKeys : CurrentRows(store0, k) = {}) =>
                    /\ store = store0
                    /\ \A i \in 1..Len(oplog) : oplog[i].op = "select"

C7_Witness ==
    /\ Done /\ StoreOpsSucceed
    /\ events = <<DeleteEvent(X, T3)>>
    /\ CurrentRows(store0, X) # {}
    /\ records_to_close = <<[record_id |-> X, valid_to |-> T3]>>
    /\ new_history_records = << >> /\ stats.errors = 0
    /\ CurrentRows(store, X) = {}

----------------------------------------------------------------------------
(* Replay order *)


\* The arrival orders of the batch
ArrivalOrders(evs) ==
    {[i \in 1..Len(evs) |-> evs[p[i]]] :
        p \in {f \in [1..Len(evs) -> 1..Len(evs)] :
                  \A i, j \in 1..Len(evs) : i # j => f[i] # f[j]}}

\* What a replay queued for key k: its closes and its History Records, in order
QueuedFor(r, k) ==
    [closes |-> SelectSeq(r.records_to_close, LAMBDA c : c.record_id = k),
     records |-> SelectSeq(r.new_history_records, LAMBDA h : h.id = k)]

SameQueuesInAnyOrder ==
    \E queued \in {[k \in Keys |-> [closes |-> ClosesOf(k), records |-> RecordsOf(k)]]} :
        \A q \in ArrivalOrders(events) \ {events} :
            \E other \in {Replay(store0, q, readFail)} :
                \A k \in Keys : QueuedFor(other, k) = queued[k]

DistinctTimestampsPerKey ==
    \A i, j \in 1..Len(events) :
        (i # j /\ events[i].record_id = events[j].record_id)
            => events[i].event_timestamp # events[j].event_timestamp

\* C8 as stated: whatever the arrival order of the batch, each key gets the
\* same sequence of closes and History Records.
C8_AnyArrivalOrder == Done => SameQueuesInAnyOrder

\* C8 as amended: each key's closes and History Records come in ascending
\* event_timestamp order, and they are the same for every arrival order of a
\* batch in which the events of one key carry pairwise distinct timestamps.
C8_DistinctTimestampsAnyOrder ==
    Done =>
        /\ \A k \in GroupKeys :
              \E records \in {RecordsOf(k)} :
              \E closes \in {ClosesOf(k)} :
                  /\ \A i, j \in 1..Len(records) :
                        i < j => ~StrLess(records[j].valid_from, records[i].valid_from)
                  /\ \A i, j \in 1..Len(closes) :
                        i < j => ~StrLess(closes[j].valid_to, closes[i].valid_to)
        /\ DistinctTimestampsPerKey => SameQueuesInAnyOrder

C8_Witness ==
    /\ Done
    /\ events = <<DeleteEvent(X, T3), UpdateEvent(X, T2)>>
    /\ CurrentRows(store0, X) # {} /\ X \notin readFail
    /\ records_to_close = <<[record_id |-> X, valid_to |-> T2],
                            [record_id |-> X, valid_to |-> T3]>>

----------------------------------------------------------------------------
(* Failures *)

\* C9: a failed read of a group's current record is counted in errors.
C9_ReadFailureCounted == Done => stats.errors >= Cardinality(readFail)

\* The replay of e raises: detect_changes is handed None
RaisesOnReplay(e) ==
    e.event_type = "UPDATE" /\ (IsNoneDict(e.before) \/ IsNoneDict(e.after))

Raising == {k \in GroupKeys : \E i \in 1..Len(events) :
                events[i].record_id = k /\ RaisesOnReplay(events[i])}

OpsOf(kind) == SelectSeq(oplog, LAMBDA o : o.op = kind)

\* C10: a group whose replay raises adds one to errors and nothing to
\* records_processed; the call still returns, every other group is replayed
\* and the apply phase runs.
C10_GroupFaultIsolated ==
    Done =>
        /\ raised_groups = Raising
        /\ stats.errors = Cardinality(Raising) + Cardinality(closeFail)
                            + (IF insertFail THEN Len(new_history_records) ELSE 0)
        /\ stats.records_processed = Cardinality(GroupKeys \ Raising)
        /\ DOMAIN current_records = GroupKeys
        /\ \A k \in GroupKeys \ Raising :
              \E evs \in {EventsOf(events, k)} :
                  /\ Len(RecordsOf(k)) = Len(OfType(evs, "INSERT"))
                                            + Len(ChangingUpdates(evs))
                  /\ Len(ClosesOf(k)) = IF HasCurrent(current_records[k])
                                        THEN Len(Closers(evs)) ELSE 0
        /\ Len(OpsOf("update")) = Len(records_to_close)
        /\ Len(OpsOf("insert")) = IF new_history_records = << >> THEN 0 ELSE 1
        /\ (closeFail = {} /\ ~insertFail) =>
              \A i \in 1..Len(new_history_records) :
                  \E j \in 1..Len(store) : store[j] = new_history_records[i]

C10_Witness ==
    /\ Done /\ StoreOpsSucceed
    /\ events = <<BrokenEvent(X, T2), InsertEvent(Y, T1)>>
    /\ raised_groups = {X}
    /\ stats.errors = 1 /\ stats.records_processed = 1 /\ stats.records_inserted = 1
    /\ \E j \in 1..Len(store) : store[j].id = Y /\ store[j].valid_from = T1

\* C11: in the apply phase each failed close adds one to errors and a failed
\* bulk insert adds the number of queued History Records; what succeeded stays:
\* every key with a successful close has no current record from the table it
\* started with, a failed insert adds no row, and a successful close followed
\* by a failed insert leaves the key without a current record and errors > 0.
FailedOps(kind) == SelectSeq(oplog, LAMBDA o : o.op = kind /\ ~o.success)

ClosedKeys == {o.record_id : o \in {oplog[i] : i \in {j \in 1..Len(oplog) :
                                    oplog[j].op = "update" /\ oplog[j].success}}}

C11_ApplyFailuresCounted ==
    Done =>
        /\ Len(FailedOps("update")) = Cardinality(closeFail)
        /\ Len(FailedOps("insert")) = IF insertFail THEN 1 ELSE 0
        /\ stats.errors = Cardinality(raised_groups) + Len(FailedOps("update"))
                            + (IF insertFail THEN Len(new_history_records) ELSE 0)
        /\ \A i \in 1..Len(store0) :
              /\ store[i].id = store0[i].id /\ store[i].valid_from = store0[i].valid_from
              /\ store[i].is_current
                    <=> (store0[i].is_current /\ store0[i].id \notin ClosedKeys)
        /\ insertFail => Len(store) = Len(store0)
        /\ \A k \in ClosedKeys :
              insertFail => (CurrentRows(store, k) = {} /\ stats.errors > 0)

C11_Witness ==
    /\ Done /\ readFail = {} /\ closeFail = {} /\ insertFail
    /\ events = <<UpdateEvent(X, T2), InsertEvent(Y, T1)>>
    /\ Cardinality(CurrentRows(store0, X)) = 1
    /\ CurrentRows(store, X) = {}
    /\ stats.errors = 2

----------------------------------------------------------------------------
(* The statistics returned *)

\* C12: total_events is the length of the batch; records_processed counts the
\* record_id groups whose replay did not raise (groups, not events), so that
\* with the groups that raised it makes the number of distinct record_ids;
\* records_inserted + records_updated <= total_events.
RecordIds == {events[i].record_id : i \in 1..Len(events)}

C12_StatsCountGroups ==
    Done =>
        /\ stats.total_events = Len(events)
        /\ stats.records_processed = Cardinality(RecordIds \ Raising)
        /\ stats.records_processed + Cardinality(raised_groups) = Cardinality(RecordIds)
        /\ raised_groups = Raising
        /\ stats.records_inserted + stats.records_updated <= stats.total_events
        /\ events = << >> => stats = NoStats(<< >>)

C12_Witness ==
    /\ Done
    /\ events = <<UpdateEvent(X, T2), InsertEvent(X, T1)>>
    /\ stats.total_events = 2 /\ stats.records_processed = 1
    /\ stats.records_inserted = 1 /\ stats.records_updated = 1

----------------------------------------------------------------------------
(* The same batch handed to process_hourly_changes a second time *)

\* The table held no current record for any key of the batch
NoCurrentFor(table, evs) ==
    \A k \in Range(GroupOrder(evs, {})) : CurrentRows(table, k) = {}

\* handler.process_hourly_changes(events, 'Account') again, on the table the
\* first invocation left, when the table it started from held no current
\* record for the keys of the batch; store0 stays the table before the first run
ProcessAgain ==
    /\ pc = "done"
    /\ NoCurrentFor(store0, events)
    /\ \E rFail \in SUBSET Range(GroupOrder(events, {})) :
       \E replayed \in {Replay(store, events, rFail)} :
       \E cFail \in SUBSET (1..Len(replayed.records_to_close)) :
       \E iFail \in (IF replayed.new_history_records = << >>
                     THEN {FALSE} ELSE BOOLEAN) :
       \E r \in {ApplyInsert(ApplyCloses(replayed, 1, cFail), iFail)} :
          /\ readFail' = rFail
          /\ closeFail' = cFail
          /\ insertFail' = iFail
          /\ store' = r.table
          /\ current_records' = r.current_records
          /\ raised_groups' = r.raised_groups
          /\ records_to_close' = r.records_to_close
          /\ new_history_records' = r.new_history_records
          /\ stats' = r.stats
          /\ oplog' = r.oplog
          /\ stats1' = stats
          /\ pc' = "again"
          /\ UNCHANGED <<events, store0>>
          /\ UNCHANGED validator_vars
          /\ UNCHANGED call

TwiceNext == ProcessHourlyChanges \/ ProcessAgain

TwiceSpec == Init /\ [][TwiceNext]_vars

Again == pc = "again"

\* C13: a batch run twice in succession, from a table with no current record
\* for its keys, returns the same records_processed both times; both calls
\* return their statistics and neither counts a group more than once.
C13_SameProcessedTwice ==
    (Again /\ NoCurrentFor(store0, events)) =>
        /\ stats.records_processed = stats1.records_processed
        /\ stats.total_events = Len(events) /\ stats1.total_events = Len(events)
        /\ stats.records_processed <= Cardinality(RecordIds)
        /\ stats1.records_processed <= Cardinality(RecordIds)
        /\ stats.records_processed = Cardinality(RecordIds \ Raising)

C13_Witness ==
    /\ Again /\ store0 = << >>
    /\ events = <<InsertEvent(X, T1), InsertEvent(Y, T1)>>
    /\ stats1.records_processed = 2 /\ stats.records_processed = 2
    /\ Cardinality(CurrentRows(store, X)) = 2

----------------------------------------------------------------------------
(* CDCValidator as a state machine *)

\* An account snapshot without its required name
AcmeNoName ==
    [id |-> X, created_date |-> T1, last_modified_date |-> T1, system_modstamp |-> T1]

\* Events of every shape: each field valid, invalid in each way the checks
\* tell apart, or missing
ValEvents ==
    {[Event(event_type, record_id, t, changed_fields, before, after)
         EXCEPT !.object_type = object_type] :
        event_type \in {"INSERT", "UPDATE", "DELETE", "MERGE", None},
        object_type \in {"Account", "Widget", None},
        record_id \in {X, ShortId, HyphenId, None},
        t \in {T1, Future, Old366, Old365AndHalf, Old365, NotATimestamp,
               IntTimestamp, None},
        changed_fields \in {<< >>, <<"name">>},
        before \in {NoneDict, Acme(X), Number},
        after \in {NoneDict, AcmeCorp(X), AcmeNoName, Number}}

\* validator.validate_event(e) for an event of E
ValidateFrom(E) ==
    \E e \in E :
        /\ validated' = e
        /\ outcome' = validate_event(e, ValidationTime)
        /\ validation_stats' = validation_stats_after(validation_stats, e, ValidationTime)
        /\ UNCHANGED alert_threshold
        /\ UNCHANGED handler_vars
        /\ UNCHANGED call

\* The first call on a new validator, with any event
ValidateOnce == validated = NoEvent /\ validation_stats.total = 0 /\ ValidateFrom(ValEvents)

ValidateInit == Init /\ store = << >>

ValidateSpec == ValidateInit /\ [][ValidateOnce]_vars

Validated == validated # NoEvent

----------------------------------------------------------------------------
(* What validate_event returns *)

\* C14: validate_event never raises, whatever the kinds of the event's
\* values, and is_valid is true exactly when the error list is empty.
C14_NeverRaises ==
    Validated =>
        /\ ~outcome.raised
        /\ outcome.is_valid <=> outcome.errors = << >>

\* C15: an accepted INSERT has before = null and after non-null, an accepted
\* DELETE has before non-null and after = null, an accepted UPDATE has both.
IsAccepted == Validated /\ ~outcome.raised /\ outcome.is_valid

C15_AcceptedHasShape ==
    IsAccepted =>
        /\ validated.event_type = "INSERT" =>
              IsNoneDict(validated.before) /\ ~IsNoneDict(validated.after)
        /\ validated.event_type = "DELETE" =>
              ~IsNoneDict(validated.before) /\ IsNoneDict(validated.after)
        /\ validated.event_type = "UPDATE" =>
              ~IsNoneDict(validated.before) /\ ~IsNoneDict(validated.after)

\* C16: an event whose record_id does not match the identifier pattern is
\* returned invalid with the record_id check's error in the list, whatever
\* its other fields are, and the list holds the errors of every check.
RecordIdError ==
    IF validated.record_id = None THEN "Missing required field: record_id"
    ELSE "Invalid record_id format"

C16_BadRecordIdReported ==
    (Validated /\ ~MatchesIdPattern(validated.record_id)) =>
        /\ ~outcome.raised /\ ~outcome.is_valid
        /\ RecordIdError \in Range(outcome.errors)
        /\ outcome.errors = AllErrors(Checks(validated, ValidationTime))

\* C19: no event is accepted whose event_timestamp is later than the
\* validation time or more than 365 days (by any part of a day) before it.
Parses(t) == CodePoints(t) # << >>

AgeSeconds(t) == Instant(ValidationTime) - Instant(t)

C19_TimestampWindow ==
    (Validated /\ Parses(validated.event_timestamp)
        /\ \/ AgeSeconds(validated.event_timestamp) < 0
           \/ AgeSeconds(validated.event_timestamp) > 365 * 86400)
      => ~IsAccepted

----------------------------------------------------------------------------
(* The validator's counters over a run of calls *)

\* A valid event, one with a bad record_id only, one failing four checks
\* (two errors under null_fields), and one that makes validate_event raise
\* after its record_id check failed
GoodEvent == InsertEvent(X, T1)
BadIdEvent == [GoodEvent EXCEPT !.record_id = ShortId]
BadManyEvent == Event("UPDATE", ShortId, Future, << >>, NoneDict, AcmeNoName)
RaisingEvent == [BadIdEvent EXCEPT !.after = Number]
CallEvents == {GoodEvent, BadIdEvent, BadManyEvent, RaisingEvent}

\* validator.validate_event(e)
Validate == validation_stats.total < MaxCalls /\ ValidateFrom(CallEvents)

\* validator.reset_statistics()
ResetStatistics ==
    /\ validation_stats' = reset_statistics
    /\ validated' = NoEvent
    /\ outcome' = NoOutcome
    /\ UNCHANGED alert_threshold
    /\ UNCHANGED handler_vars
    /\ UNCHANGED call

ValidatorNext == Validate \/ ResetStatistics

ValidatorSpec == ValidateInit /\ [][ValidatorNext]_vars

\* validator.should_alert() in the current state
ShouldAlert == should_alert(validation_stats, alert_threshold)

\* C17: should_alert() is true exactly when invalid/total > 0.05: false with no
\* event validated, false after 19 valid and 1 invalid (the rate equals the
\* threshold), true after 19 valid and 2 invalid.
C17_AlertAboveThreshold ==
    /\ validation_stats.total = 0 => ~ShouldAlert
    /\ validation_stats.total > 0 =>
          (ShouldAlert <=> 20 * validation_stats.invalid > validation_stats.total)
    /\ (validation_stats.valid = 19 /\ validation_stats.invalid = 1
            /\ validation_stats.total = 20) => ~ShouldAlert
    /\ (validation_stats.valid = 19 /\ validation_stats.invalid = 2
            /\ validation_stats.total = 21) => ShouldAlert

C17_Witness ==
    /\ validation_stats.valid = 19 /\ validation_stats.invalid = 1
    /\ validation_stats.total = 20
    /\ validated = BadIdEvent /\ ~outcome.is_valid
    /\ ~ShouldAlert

\* C18: after any run of validate_event and reset_statistics calls,
\* total = valid + invalid and no error_types counter exceeds invalid; a reset
\* leaves alert_threshold as it was.
C18_CountersAddUp ==
    /\ validation_stats.total = validation_stats.valid + validation_stats.invalid
    /\ \A c \in DOMAIN validation_stats.error_types :
          validation_stats.error_types[c] <= validation_stats.invalid
    /\ alert_threshold = [num |-> 5, den |-> 100]

----------------------------------------------------------------------------
(* Events that arrive through CDCEventParser.parse_pubsub_message *)

EnvelopeKeys == {"_pubsub_message_id", "_pubsub_publish_time", "_pubsub_attributes"}

\* message.publish_time.isoformat() of the i-th message: the first message
\* was published last
PublishTime(i) == IF i = 1 THEN Future ELSE ValidationTime

MessageId(i) == IF i = 1 THEN "m1" ELSE IF i = 2 THEN "m2" ELSE "m3"

\* message.attributes is empty on every second message
HasAttributes(i) == i % 2 = 1

\* parse_pubsub_message: the event with the message's metadata attached
parse_pubsub_message(e, i, attributes) ==
    (IF attributes
     THEN "_pubsub_attributes" :> [origin |-> "salesforce"]
     ELSE EmptyDict)
    @@ ("_pubsub_message_id" :> MessageId(i))
    @@ ("_pubsub_publish_time" :> PublishTime(i))
    @@ e

\* The event without the keys prefixed with _
Bare(e) == [k \in DOMAIN e \ EnvelopeKeys |-> e[k]]

BareBatch(evs) == [i \in 1..Len(evs) |-> Bare(evs[i])]

\* validate_event of an event as a message delivered it
ValidateParsed ==
    /\ validated = NoEvent /\ validation_stats.total = 0 /\ pc = "idle"
    /\ \E attributes \in BOOLEAN :
          ValidateFrom({parse_pubsub_message(e, 1, attributes) : e \in ValEvents})

\* process_hourly_changes of a batch of events as messages delivered them
ProcessParsed ==
    /\ pc = "idle" /\ validated = NoEvent
    /\ \E bare \in Batches :
       \E evs \in {[i \in 1..Len(bare) |-> parse_pubsub_message(bare[i], i, HasAttributes(i))]} :
       \E rFail \in SUBSET Range(GroupOrder(evs, {})) :
       \E replayed \in {Replay(store, evs, rFail)} :
       \E cFail \in SUBSET (1..Len(replayed.records_to_close)) :
       \E iFail \in (IF replayed.new_history_records = << >>
                     THEN {FALSE} ELSE BOOLEAN) :
       \E r \in {ApplyInsert(ApplyCloses(replayed, 1, cFail), iFail)} :
          /\ events' = evs
          /\ readFail' = rFail
          /\ closeFail' = cFail
          /\ insertFail' = iFail
          /\ store0' = store
          /\ store' = r.table
          /\ current_records' = r.current_records
          /\ raised_groups' = r.raised_groups
          /\ records_to_close' = r.records_to_close
          /\ new_history_records' = r.new_history_records
          /\ stats' = r.stats
          /\ oplog' = r.oplog
          /\ pc' = "done"
          /\ UNCHANGED stats1
          /\ UNCHANGED validator_vars
          /\ UNCHANGED call

ParsedNext == ValidateParsed \/ ProcessParsed

ParsedSpec == Init /\ [][ParsedNext]_vars

\* C20: the keys prefixed with _ change nothing: the event with and without
\* them gets the same (is_valid, errors) and the same counters from
\* validate_event, and the batch with and without them queues the same closes
\* and History Records, leaves the same table and returns the same Stats.
C20_EnvelopeIgnored ==
    /\ Validated =>
          /\ outcome = validate_event(Bare(validated), ValidationTime)
          /\ validation_stats
                = validation_stats_after(reset_statistics, Bare(validated), ValidationTime)
    /\ Done =>
          \E bare \in {process_hourly_changes(store0, BareBatch(events), readFail,
                                               closeFail, insertFail)} :
              /\ bare.records_to_close = records_to_close
              /\ bare.new_history_records = new_history_records
              /\ bare.stats = stats
              /\ bare.table = store

C20_Witness ==
    /\ Done /\ StoreOpsSucceed
    /\ BareBatch(events) = <<UpdateEvent(X, T2), InsertEvent(Y, T1)>>
    /\ EnvelopeKeys \subseteq DOMAIN events[1]
    /\ "_pubsub_publish_time" \in DOMAIN events[2]
    /\ events[1]["_pubsub_message_id"] # events[2]["_pubsub_message_id"]
    /\ Len(new_history_records) = 2
    /\ stats.records_inserted = 1 /\ stats.records_updated = 1

----------------------------------------------------------------------------
(* The handler's helpers called on their own *)

Opt(field, values) == {EmptyDict} \cup {field :> v : v \in values}

\* Snapshots with and without a name and a phone, the name null or one of two,
\* and with at most one bookkeeping field carrying one of two stamps
Snapshots ==
    {name @@ phone @@ stamp :
        name \in Opt("name", {None, "Acme", "Acme Corp"}),
        phone \in Opt("phone", {"555-0100"}),
        stamp \in UNION {Opt(f, {T1, T2}) : f \in metadata_fields}}

\* tracked_fields: not given, business fields, bookkeeping fields, both, and
\* a field named twice
TrackedLists ==
    {<< >>, <<"name">>, <<"name", "system_modstamp">>,
     <<"ingestion_timestamp", "source", "_cdc_event_id", "_cdc_event_type",
       "_cdc_event_timestamp", "_pubsub_message_id", "_processing_timestamp",
       "system_modstamp">>,
     <<"phone", "name", "phone">>}

\* handler.detect_changes(before, after, tracked_fields)
DetectChanges ==
    /\ call = NoCall
    /\ \E before \in Snapshots :
       \E after \in Snapshots :
       \E tracked_fields \in TrackedLists :
          call' = [fn |-> "detect_changes", before |-> before, after |-> after,
                   tracked_fields |-> tracked_fields,
                   changes |-> detect_changes(before, after, tracked_fields)]
    /\ UNCHANGED handler_vars
    /\ UNCHANGED validator_vars

\* Snapshots to serialise: none, empty, and with names that hold characters
\* json escapes or that read like JSON
RecordDatas ==
    {NoneDict, EmptyDict}
        \cup {("id" :> X) @@ name :
                name \in Opt("name", {None, "Acme", "null", "Say \"hi\"",
                                      "C:\\temp", "two\nlines", "{\"a\": 1}"})}

ChangedFieldLists == {<< >>, <<"name">>, <<"name", "last_modified_date">>, <<"a\"b\\">>}

\* is_current and valid_to as the caller passes them, or left to their defaults
Validities ==
    {[supplied |-> FALSE, is_current |-> DefaultIsCurrent, valid_to |-> DefaultValidTo]}
        \cup {[supplied |-> TRUE, is_current |-> c, valid_to |-> t] :
                c \in BOOLEAN, t \in {None, T2}}

\* handler.create_history_record(...)
CreateHistoryRecord ==
    /\ call = NoCall
    /\ \E record_id \in Keys :
       \E record_data \in RecordDatas :
       \E change_type \in {"INSERT", "UPDATE", "DELETE"} :
       \E changed_fields \in ChangedFieldLists :
       \E validity \in Validities :
          call' = [fn |-> "create_history_record", record_id |-> record_id,
                   record_data |-> record_data, valid_from |-> T1,
                   change_type |-> change_type, changed_fields |-> changed_fields,
                   validity |-> validity,
                   record |-> create_history_record(
                                  record_id, record_data, T1, change_type,
                                  changed_fields, validity.is_current,
                                  validity.valid_to)]
    /\ UNCHANGED handler_vars
    /\ UNCHANGED validator_vars

\* Events of one key and its sibling at timestamps in each spelling
SpelledEvents ==
    {UpdateEvent(k, t) : k \in Keys, t \in {T1, T1Frac, T1Offset, T1Plus2, T2}}

SpelledBatches == UNION {[1..n -> SpelledEvents] : n \in 0..MaxBatch}

\* handler.group_events_by_record(events)
GroupEventsByRecord ==
    /\ call = NoCall
    /\ \E evs \in SpelledBatches :
          call' = [fn |-> "group_events_by_record", events |-> evs,
                   grouped |-> group_events_by_record(evs)]
    /\ UNCHANGED handler_vars
    /\ UNCHANGED validator_vars

HelpersNext == DetectChanges \/ CreateHistoryRecord \/ GroupEventsByRecord

HelpersSpec == ValidateInit /\ [][HelpersNext]_vars

Detected == call.fn = "detect_changes"

\* The two snapshots have the same fields with the same values, bookkeeping
\* fields apart
SameBusinessFields(before, after) ==
    \A f \in (DOMAIN before \cup DOMAIN after) \ metadata_fields :
        f \in DOMAIN before /\ f \in DOMAIN after /\ before[f] = after[f]

\* C21: detect_changes(s, s) reports no change, and two snapshots that differ
\* in bookkeeping fields only get has_changes = false and no changed field,
\* whether or not tracked_fields names bookkeeping fields.
C21_BookkeepingIgnored ==
    Detected =>
        /\ call.before = call.after => ~call.changes.has_changes
        /\ SameBusinessFields(call.before, call.after) =>
              /\ ~call.changes.has_changes
              /\ call.changes.changed_fields = << >>
              /\ call.changes.field_changes = EmptyDict

C21_Witness ==
    /\ Detected
    /\ call.before = ("name" :> "Acme") @@ ("system_modstamp" :> T1)
    /\ call.after = ("name" :> "Acme") @@ ("system_modstamp" :> T2)
    /\ call.tracked_fields = <<"name", "system_modstamp">>
    /\ ~call.changes.has_changes /\ call.changes.changed_fields = << >>

Built == call.fn = "create_history_record"

----------------------------------------------------------------------------
(* process_hourly_changes statement by statement: one step for each query    *)
(* sent to the table                                                         *)

\* The locals of the invocation under way
Locals ==
    [table |-> store, stats |-> stats, new_history_records |-> new_history_records,
     records_to_close |-> records_to_close, current_records |-> current_records,
     raised_groups |-> raised_groups, raised |-> FALSE, oplog |-> oplog]

SetLocals(acc) ==
    /\ store' = acc.table
    /\ stats' = acc.stats
    /\ new_history_records' = acc.new_history_records
    /\ records_to_close' = acc.records_to_close
    /\ current_records' = acc.current_records
    /\ raised_groups' = acc.raised_groups
    /\ oplog' = acc.oplog

Issued(kind) == Len(SelectSeq(oplog, LAMBDA o : o.op = kind))

\* Mutant: the insert does not wait for the closes
ClosesIssued_NotAwaited == TRUE

\* `for close_info in records_to_close` has run to its end
ClosesIssued == Issued("update") = Len(records_to_close)

\* stats = {...}; grouped_events = self.group_events_by_record(events)
BeginBatch ==
    /\ pc = "idle"
    /\ \E evs \in Batches :
          /\ events' = evs
          /\ stats' = NoStats(evs)
    /\ store0' = store
    /\ pc' = "running"
    /\ UNCHANGED <<store, readFail, closeFail, insertFail, current_records,
                   raised_groups, records_to_close, new_history_records, oplog,
                   stats1>>
    /\ UNCHANGED validator_vars
    /\ UNCHANGED call

\* One pass of `for record_id, record_events in grouped_events.items()`
ReplayNextGroup ==
    /\ pc = "running"
    /\ \E groups \in {group_events_by_record(events)} :
          /\ Issued("select") < Len(groups)
          /\ \E group \in {groups[Issued("select") + 1]} :
             \E fails \in BOOLEAN :
                /\ SetLocals(ReplayGroup(Locals, group, store,
                                         IF fails THEN {group.record_id} ELSE {}))
                /\ readFail' = IF fails THEN readFail \cup {group.record_id}
                                ELSE readFail
    /\ UNCHANGED <<pc, events, closeFail, insertFail, store0, stats1>>
    /\ UNCHANGED validator_vars
    /\ UNCHANGED call

\* One pass of `for close_info in records_to_close`
CloseNextRecord ==
    /\ pc = "running"
    /\ Issued("select") = Len(GroupOrder(events, {}))
    /\ ~ClosesIssued
    /\ \E i \in {Issued("update") + 1} :
       \E fails \in BOOLEAN :
          /\ SetLocals(ApplyClose(Locals, i, fails))
          /\ closeFail' = IF fails THEN closeFail \cup {i} ELSE closeFail
    /\ UNCHANGED <<pc, events, readFail, insertFail, store0, stats1>>
    /\ UNCHANGED validator_vars
    /\ UNCHANGED call

\* `if new_history_records:`, the bulk insert, and `return stats`
InsertAndReturn ==
    /\ pc = "running"
    /\ Issued("select") = Len(GroupOrder(events, {}))
    /\ ClosesIssued
    /\ \E iFail \in (IF new_history_records = << >> THEN {FALSE} ELSE BOOLEAN) :
          /\ SetLocals(ApplyInsert(Locals, iFail))
          /\ insertFail' = iFail
    /\ pc' = "done"
    /\ UNCHANGED <<events, readFail, closeFail, store0, stats1>>
    /\ UNCHANGED validator_vars
    /\ UNCHANGED call

StepNext == BeginBatch \/ ReplayNextGroup \/ CloseNextRecord \/ InsertAndReturn

StepSpec == Init /\ [][StepNext]_vars

\* C23: the queries reach the table in this order: the closes, one for each
\* queued close and in the order they were queued, all of them before the
\* bulk insert; the insert is one call with every queued record, sent at most
\* once and only when there is a record; no call is sent a second time.
C23_ClosesThenOneInsert ==
    \E updates \in {OpsOf("update")} :
    \E inserts \in {OpsOf("insert")} :
        /\ Len(updates) <= Len(records_to_close)
        /\ \A i \in 1..Len(updates) :
              /\ updates[i].record_id = records_to_close[i].record_id
              /\ updates[i].valid_to = records_to_close[i].valid_to
        /\ Len(inserts) <= 1
        /\ \A p \in 1..Len(oplog) :
              oplog[p].op = "insert" =>
                  /\ p = Len(oplog)
                  /\ Len(updates) = Len(records_to_close)
                  /\ oplog[p].rows = Len(new_history_records)
                  /\ new_history_records # << >>
        /\ \A p, q \in 1..Len(oplog) :
              (oplog[p].op = "update" /\ oplog[q].op = "select") => q < p
        /\ Done =>
              /\ Len(updates) = Len(records_to_close)
              /\ Len(inserts) = IF new_history_records = << >> THEN 0 ELSE 1
              /\ Len(oplog) = Cardinality(GroupKeys) + Len(updates) + Len(inserts)

C23_Witness ==
    /\ Done /\ closeFail = {1} /\ insertFail
    /\ events = <<DeleteEvent(X, T3), UpdateEvent(X, T2)>>
    /\ Len(oplog) = 4
    /\ oplog[2].op = "update" /\ oplog[2].valid_to = T2 /\ ~oplog[2].success
    /\ oplog[3].op = "update" /\ oplog[3].valid_to = T3 /\ oplog[3].success
    /\ oplog[4].op = "insert" /\ ~oplog[4].success

----------------------------------------------------------------------------
(* The pipeline's steps around the validator and the handler                 *)
(* (pipelines/salesforce_streaming_cdc.py)                                   *)

\* def process_hourly_changes(self, events, object_type)
HandlerParameters == {"events", "object_type"}

\* self.handler.process_hourly_changes(object_type=..., events=..., table_name=...)
GlueKeywords == {"object_type", "events", "table_name"}

\* A call with a keyword the function does not have raises TypeError before
\* the function's body is entered
CallBinds == GlueKeywords \subseteq HandlerParameters

\* ProcessSCDType2Changes.process((object_type, events))
ProcessGroup ==
    /\ pc = "idle" /\ call = NoCall /\ validated = NoEvent
    /\ \E evs \in Batches :
          IF evs = << >>
          THEN /\ call' = [fn |-> "ProcessSCDType2Changes.process", events |-> evs,
                           invoked |-> 0, raised |-> FALSE, emitted |-> << >>]
               /\ UNCHANGED handler_vars
          ELSE IF ~CallBinds
          THEN /\ call' = [fn |-> "ProcessSCDType2Changes.process", events |-> evs,
                           invoked |-> 0, raised |-> TRUE, emitted |-> << >>]
               /\ UNCHANGED handler_vars
          ELSE /\ Invoke(evs)
               /\ call' = [fn |-> "ProcessSCDType2Changes.process", events |-> evs,
                           invoked |-> 1, raised |-> FALSE, emitted |-> <<stats'>>]
    /\ UNCHANGED validator_vars

\* ValidateCDCEvent.process(element), on the instance's one validator
ValidateElement ==
    /\ pc = "idle"
    /\ call = NoCall \/ call.fn = "ValidateCDCEvent.process"
    /\ validation_stats.total < MaxElements
    /\ \E element \in CallEvents :
       \E r \in {validate_event(element, ValidationTime)} :
          /\ validated' = element
          /\ outcome' = r
          /\ validation_stats'
                = validation_stats_after(validation_stats, element, ValidationTime)
          /\ call' = [fn |-> "ValidateCDCEvent.process", element |-> element,
                      raised |-> r.raised,
                      emitted |->
                          IF r.raised THEN << >>
                          ELSE IF r.is_valid
                          THEN <<[tag |-> "valid", element |-> element]>>
                          ELSE <<[tag |-> "invalid",
                                  element |->
                                      ("_validation_errors" :> r.errors)
                                      @@ ("_validation_timestamp" :> ValidationTime)
                                      @@ element]>>]
    /\ UNCHANGED alert_threshold
    /\ UNCHANGED handler_vars

GlueNext == ProcessGroup \/ ValidateElement

GlueSpec == Init /\ [][GlueNext]_vars

GroupProcessed == call.fn = "ProcessSCDType2Changes.process"

\* C24: for a non-empty group of events, ProcessSCDType2Changes.process calls
\* process_hourly_changes once with the group's events, does not raise, and
\* emits the statistics the call returned.
C24_GroupInvokesOnce ==
    (GroupProcessed /\ call.events # << >>) =>
        /\ ~call.raised
        /\ call.invoked = 1
        /\ events = call.events
        /\ call.emitted = <<stats>>

ElementValidated == call.fn = "ValidateCDCEvent.process"

ValidationKeys == {"_validation_errors", "_validation_timestamp"}

\* C25: every event handed to ValidateCDCEvent.process is emitted on exactly
\* one of the outputs valid and invalid, on valid exactly when its own checks
\* report no error, whatever the validator counted before; a valid event is
\* emitted as it came and an invalid one with the validation keys added and
\* nothing else changed.
C25_RoutedByOwnResult ==
    ElementValidated =>
        /\ Len(call.emitted) = 1
        /\ call.emitted[1].tag \in {"valid", "invalid"}
        /\ call.emitted[1].tag = "valid"
              <=> AllErrors(Checks(call.element, ValidationTime)) = << >>
        /\ call.emitted[1].tag = "valid" => call.emitted[1].element = call.element
        /\ call.emitted[1].tag = "invalid" =>
              /\ DOMAIN call.emitted[1].element = DOMAIN call.element \cup ValidationKeys
              /\ \A k \in DOMAIN call.element :
                    call.emitted[1].element[k] = call.element[k]

----------------------------------------------------------------------------
(* The rows the invocation writes *)

\* Row i was in the table when the invocation started and is as it was
Untouched(i) == i <= Len(store0) /\ store[i] = store0[i]

\* Row i was current when the invocation started and is now closed, with
\* nothing but valid_to and is_current changed
ClosedByInvocation(i) ==
    /\ i <= Len(store0)
    /\ store0[i].is_current /\ store0[i].valid_to = None
    /\ ~store[i].is_current /\ store[i].valid_to # None
    /\ store[i] = [store0[i] EXCEPT !.valid_to = store[i].valid_to,
                                     !.is_current = FALSE]

\* Row i was appended by the invocation
Appended(i) == i > Len(store0)

\* C26: at every point of the invocation each row of the table has
\* is_current = true exactly when valid_to is null: a row the invocation
\* appended is current with valid_to null, and a row it changed was current
\* and got a timestamp in valid_to and is_current = false together.
C26_CurrentIffOpen ==
    /\ Len(store) >= Len(store0)
    /\ \A i \in 1..Len(store) :
          /\ store[i].is_current <=> store[i].valid_to = None
          /\ Appended(i) => (store[i].is_current /\ store[i].valid_to = None)
          /\ ~Appended(i) => (Untouched(i) \/ ClosedByInvocation(i))
          /\ (~Appended(i) /\ ~Untouched(i)) =>
                \E j \in 1..Len(records_to_close) :
                    /\ records_to_close[j].record_id = store[i].id
                    /\ records_to_close[j].valid_to = store[i].valid_to

C26_Witness ==
    /\ Done /\ StoreOpsSucceed
    /\ events = <<UpdateEvent(X, T2)>>
    /\ Len(store0) = 1 /\ Len(store) = 2
    /\ ClosedByInvocation(1) /\ store[1].valid_to = T2
    /\ store[2].is_current /\ store[2].valid_to = None /\ store[2].valid_from = T2

----------------------------------------------------------------------------
(* The order of replay and the order of time *)

Grouped == call.fn = "group_events_by_record"

\* C27: in each group of validator-accepted events the replay order is the
\* order of the instants the event_timestamps denote, in whichever accepted
\* spelling they are written, and events with the same event_timestamp keep
\* their arrival order.
C27_ReplayChronological ==
    (Grouped /\ \A p \in 1..Len(call.events) : Accepted(call.events[p])) =>
        \A g \in 1..Len(call.grouped) :
            \E replay \in {call.grouped[g].record_events} :
            \E arrival \in {EventsOf(call.events, call.grouped[g].record_id)} :
                /\ \A i, j \in 1..Len(replay) :
                      i < j => ~Earlier(replay[j].event_timestamp,
                                        replay[i].event_timestamp)
                /\ (\A i, j \in 1..Len(arrival) :
                        arrival[i].event_timestamp = arrival[j].event_timestamp)
                      => replay = arrival

----------------------------------------------------------------------------
(* What detect_changes returns *)

\* C28: in every result of detect_changes, has_changes is true exactly when
\* changed_fields is not empty; changed_fields holds the keys of field_changes,
\* each once; each listed field has a before value different from its after
\* value, a missing field reading as null, and field_changes records that
\* pair; and when tracked_fields is not empty every listed field is in it.
C28_ChangeSetConsistent ==
    Detected =>
        \E c \in {call.changes} :
        \E b \in {call.before} :
        \E a \in {call.after} :
            /\ c.has_changes <=> Len(c.changed_fields) > 0
            /\ Range(c.changed_fields) = DOMAIN c.field_changes
            /\ \A i, j \in 1..Len(c.changed_fields) :
                  i # j => c.changed_fields[i] # c.changed_fields[j]
            /\ \A f \in DOMAIN c.field_changes :
                  \E bv \in {IF f \in DOMAIN b THEN b[f] ELSE None} :
                  \E av \in {IF f \in DOMAIN a THEN a[f] ELSE None} :
                      /\ bv # av
                      /\ c.field_changes[f] = [before |-> bv, after |-> av]
            /\ call.tracked_fields # << >> =>
                  Range(c.changed_fields) \subseteq Range(call.tracked_fields)

C28_Witness ==
    /\ Detected
    /\ call.tracked_fields = <<"phone", "name", "phone">>
    /\ call.before = ("name" :> "Acme") @@ ("system_modstamp" :> T1)
    /\ call.after = ("name" :> "Acme Corp") @@ ("phone" :> "555-0100")
                        @@ ("system_modstamp" :> T2)
    /\ call.changes.has_changes
    /\ Range(call.changes.changed_fields) = {"name", "phone"}
    /\ Len(call.changes.changed_fields) = 2
    /\ call.changes.field_changes["phone"] = [before |-> None, after |-> "555-0100"]

----------------------------------------------------------------------------
(* The groups of one batch, one against another *)

\* What a table or a queue holds for key k, in the order it holds it
KeyRows(rows, k) == SelectSeq(rows, LAMBDA r : r.id = k)
KeyCloses(queue, k) == SelectSeq(queue, LAMBDA c : c.record_id = k)

\* The close at position p of the queue is the n-th close of its key
NthOfKey(queue, p) ==
    Cardinality({q \in 1..p : queue[q].record_id = queue[p].record_id})

\* Which of the closes of key k failed in the invocation, counted within k
FailedCloses(k) ==
    {NthOfKey(records_to_close, p) :
        p \in {q \in closeFail : records_to_close[q].record_id = k}}

\* The invocation's table and failures with another batch: the select fails
\* for the same keys, the same closes of each key fail, the insert fails alike
ProcessWith(evs) ==
    LET replayed == Replay(store0, evs, readFail)
        queue == replayed.records_to_close
        cFail == {p \in 1..Len(queue) :
                     NthOfKey(queue, p) \in FailedCloses(queue[p].record_id)}
    IN  ApplyInsert(ApplyCloses(replayed, 1, cFail), insertFail)

\* The batch with its groups in the other order
Regrouped ==
    LET order == GroupOrder(events, {})
    IN  EventsOf(events, order[2]) \o EventsOf(events, order[1])

StatNames == {"total_events", "records_processed", "records_inserted", "records_updated", "errors"}

\* What is queued and left in the table for key k is the same in both results
SameForKey(k, one, other) ==
    /\ KeyCloses(one.records_to_close, k) = KeyCloses(other.records_to_close, k)
    /\ KeyRows(one.new_history_records, k) = KeyRows(other.new_history_records, k)
    /\ KeyRows(one.table, k) = KeyRows(other.table, k)

----------------------------------------------------------------------------
(* A group whose replay raises part-way *)

\* The position in a group of the first event whose replay raises, or one
\* past the end of the group
RECURSIVE FirstRaising(_, _)
FirstRaising(group, i) ==
    IF i > Len(group) \/ RaisesOnReplay(group[i]) THEN i
    ELSE FirstRaising(group, i + 1)

\* The events of key k replayed before the exception
ReplayedBefore(k) ==
    SubSeq(GroupEvents(k), 1, FirstRaising(GroupEvents(k), 1) - 1)

\* C30: for a group whose replay raised, the closes and History Records of
\* the events replayed before the exception are queued, the closes are sent
\* and the records are inserted as they would be had the group ended there,
\* and records_inserted and records_updated count those events, while the
\* group adds one to errors and nothing to records_processed.
C30_PartialReplayKept ==
    (Done /\ raised_groups # {}) =>
        \E x \in {ProcessWith(ReplayedBefore(X))} :
        \E y \in {ProcessWith(ReplayedBefore(Y))} :
            /\ \A k \in raised_groups :
                  \E before \in {ReplayedBefore(k)} :
                  \E ended \in {IF k = X THEN x ELSE y} :
                      /\ Len(RecordsOf(k)) = Len(OfType(before, "INSERT"))
                                                + Len(ChangingUpdates(before))
                      /\ Len(ClosesOf(k)) = IF HasCurrent(current_records[k])
                                            THEN Len(Closers(before)) ELSE 0
                      /\ RecordsOf(k) = ended.new_history_records
                      /\ ClosesOf(k) = ended.records_to_close
                      /\ KeyRows(store, k) = KeyRows(ended.table, k)
                      /\ Len(SelectSeq(OpsOf("update"), LAMBDA o : o.record_id = k))
                            = Len(ClosesOf(k))
                      /\ ~insertFail => \A i \in 1..Len(RecordsOf(k)) :
                            \E j \in 1..Len(store) : store[j] = RecordsOf(k)[i]
            /\ stats.records_inserted = x.stats.records_inserted + y.stats.records_inserted
            /\ stats.records_updated = x.stats.records_updated + y.stats.records_updated
            /\ stats.records_processed = Cardinality(GroupKeys \ raised_groups)
            /\ stats.errors = Cardinality(raised_groups) + Cardinality(closeFail)
                                + (IF insertFail THEN Len(new_history_records) ELSE 0)

C30_Witness ==
    /\ Done /\ StoreOpsSucceed
    /\ events = <<UpdateEvent(X, T1), BrokenEvent(X, T2)>>
    /\ store0 = <<OpenRow(X, T1, "INSERT", << >>, Acme(X))>>
    /\ raised_groups = {X}
    /\ records_to_close = <<CloseInfo(X, UpdateEvent(X, T1))>>
    /\ Len(new_history_records) = 1
    /\ Len(store) = 2
    /\ ~store[1].is_current /\ store[1].valid_to = T1
    /\ store[2] = new_history_records[1] /\ store[2].change_type = "UPDATE"
    /\ stats.records_updated = 1 /\ stats.records_processed = 0 /\ stats.errors = 1

====
